---- MODULE Spec2Model ----
(***************************************************************************)
(* A model of the orchestrator (brettsmith212/orchestrator): the CLI       *)
(* process adapter, the driver's event collector, the arbitrator with its  *)
(* scoring and test-result comparison, the driver's run with its agent     *)
(* tasks and worktree manager, the adapter registry, the watchdog, the     *)
(* test runner, the loading and validation of the configuration, the       *)
(* argument vector of the agent process, and NormalizeDiff.                *)
(***************************************************************************)
EXTENDS Integers, Sequences, FiniteSets, TLC

(***************************************************************************)
(* Bounds of the model.                                                    *)
(***************************************************************************)
\* lines an agent process writes when every kind of line is allowed
MaxLines == 3
\* lines beyond the channel's buffer that a process writing plain events may write
MaxExtra == 1
\* Shutdown calls made on one adapter
MaxShutdown == 2
\* lines of a test command's output
MaxOutLines == 0
\* lines of the outputs behind the test results handed to CompareResults
MaxCmpLines == 3
\* lines of a diff handed to EvaluatePatch
MaxDiffLines == 2
\* candidates in the map handed to SelectBestPatch
MaxAgents == 2
\* arguments of calculateScore
MaxAdded == 51
MaxRemoved == 1
MaxTests == 2
\* agents configured for one run of the driver
MaxDriverAgents == 2
\* events one agent's adapter delivers in a run of the driver
MaxEvents == 1
\* tasks calling the registry concurrently
MaxThreads == 2
\* agents in the configuration handed to CreateFromConfig
MaxCfgAgents == 1
\* agents the watchdog knows, and operations on it in one run
MaxWatched == 1
MaxWatchdogOps == 6
\* tokens an extractor reads from one event
MaxTokenStep == 2
\* calls made on a worktree manager
MaxWorktreeOps == 3
\* agents in a configuration file
MaxConfigAgents == 2
\* arguments an adapter is configured with
MaxArgs == 2
\* lines of a diff handed to NormalizeDiff
MaxNormLines == 2
\* carriage returns at the end of a line of a diff
MaxCR == 2
\* values a sender puts on the channel handed to collectEvents
MaxSent == 3

\* the buffer of the adapter's event channel: make(chan *protocol.Event, 10)
ChanCap == 10

\* the id the adapter was constructed with (New(id, command, args))
AdapterID == "agent"

(***************************************************************************)
(* State.                                                                  *)
(***************************************************************************)
VARIABLES
    \* --- the CLI adapter, its subprocess and its reader goroutine
    cmdSet,        \* a.cmd != nil
    proc,          \* a.cmd.Process: "nil", "running", "zombie" (terminated, not waited for), "reaped"
    exitOK,        \* the process terminated with status 0
    alphabet,      \* the kinds of line this run's process writes
    budget,        \* lines the process may still deliver on its stdout pipe
    startRet,      \* what Start returned: "none" (not called), "ok", "error"
    chanReturned,  \* Start handed the channel to its caller
    rpc,           \* reader goroutine: "none", "scan", "send", "wait", "close", "done"
    seq,           \* the reader's local counter
    pending,       \* the event the reader is sending, and where it goes on afterwards
    eventCh,       \* the channel's buffer
    closeCount,    \* how many times close(eventCh) ran
    sendOnClosed,  \* a send happened on the closed channel
    emitted,       \* every event put on the channel, in order
    ctxDone,       \* the context passed to Start is cancelled
    \* --- the driver's collector for this adapter (collectEvents)
    cpc,           \* "idle", "collect", "returned"
    events,        \* collectEvents' result so far
    \* --- Shutdown calls
    shutdownCalls, \* number of Shutdown calls made
    shutdownErrs,  \* number of those that returned an error
    \* --- history
    scanned        \* the forms of the lines scanner.Scan() has delivered, in order

adapterVars == <<cmdSet, proc, exitOK, alphabet, budget, startRet, chanReturned, rpc,
                 seq, pending, eventCh, closeCount, sendOnClosed, emitted, ctxDone,
                 cpc, events, shutdownCalls, shutdownErrs, scanned>>

VARIABLES
    \* --- the test runner and the arbitrator
    testCommandEmpty, \* strings.Fields(tr.TestCommand) is empty
    baseTestResults,  \* a.baseTestResults (Nil until SetBaselineTestResults stores one)
    baselineCalled,   \* SetBaselineTestResults has been called
    \* --- one SelectBestPatch call
    patches,       \* the candidate map: agent id -> diff
    spc,           \* "new", "eval", "done"
    evalCount,     \* per candidate: EvaluatePatch calls
    runCount,      \* per candidate: testRunner.Run calls
    cstate,        \* per candidate: "received", "no-tests", "dropped", "scored"
    results,       \* the results slice, in evaluation order
    runOf,         \* per candidate: what the test command does in its worktree (Nil until run)
    selectRet,     \* what SelectBestPatch returned
    invocation,    \* SelectBestPatch calls made on this candidate map
    prevRet,       \* what the previous call returned
    \* --- one EvaluatePatch call
    evalDiff,      \* its diff argument
    evalRet,       \* what it returned, and whether it invoked the test runner
    \* --- one call of a pure function
    fnArgs,        \* its arguments
    fnRet          \* its result

VARIABLES
    \* --- the driver: run, runAgents and one task per agent
    runPc,            \* run: "new", "setup", "agents", "select", "cleanup", "returned"
    wmCreated,        \* NewWorktreeManager succeeded
    cleanupRan,       \* the deferred worktreeManager.Cleanup() has run
    driverCtxDone,    \* the driver's context is cancelled
    createdWorktrees, \* wm.createdWorktrees
    removedWorktrees, \* worktrees Cleanup has removed
    taskPc,           \* per agent: "idle", "create", "append", "start", "collect",
                      \*   "shutdown", "getdiff", "store", "done"
    taskRead,         \* per agent: the slice its CreateWorktree call read for append
    taskPath,         \* per agent: the path CreateWorktree returned (Nil if none)
    taskDiffErr,      \* per agent: "", or why GetDiff failed
    agentProc,        \* per agent: its process, "none", "running", "exited"
    chSent,           \* per agent: events its adapter has put on the channel
    chClosed,         \* per agent: the adapter closed the channel
    collected,        \* per agent: events collectEvents has appended
    tracked,          \* per agent: events handed to the watchdog's TrackEvent
    patchDetails,     \* the candidate map runAgents fills
    storeCount,       \* per agent: writes of its entry of the candidate map
    lateWrite         \* the candidate map was written after runAgents returned

driverVars == <<runPc, wmCreated, cleanupRan, driverCtxDone, createdWorktrees,
                removedWorktrees, taskPc, taskRead, taskPath, taskDiffErr, agentProc,
                chSent, chClosed, collected, tracked, patchDetails, storeCount, lateWrite>>

VARIABLES
    \* --- the adapter registry and the tasks calling it
    factories,     \* r.factories: the registered adapter types
    rwReaders,     \* r.mutex: read locks held
    rwWriter,      \* r.mutex: the task holding the write lock (Nil if none)
    rwPending,     \* r.mutex: tasks that called Lock and wait for the readers to leave
    regOp,         \* per task: the call it is in, "none" if it has not called yet
    regPc,         \* per task: where it is in that call
    regLeft        \* per task, in CreateFromConfig: agents of cfg.Agents still to create

registryVars == <<factories, rwReaders, rwWriter, rwPending, regOp, regPc, regLeft>>

VARIABLES
    \* --- the watchdog
    counters,      \* agent id -> [tokens, elapsed] for the monitored agents
    warningsSent,  \* the set of agents that have received a warning
    warnedCount,   \* per agent: warning events emitted for it in this run
    terminateSent, \* agent ids published for termination
    watchdogOps    \* operations performed

watchdogVars == <<counters, warningsSent, warnedCount, terminateSent, watchdogOps>>

VARIABLES
    \* --- a worktree manager called by one caller (its list of created
    \* worktrees is createdWorktrees)
    wtOnDisk,      \* the paths that are git worktrees on disk
    wtLast,        \* the last call: operation, path, error, the list before it
    wtOps          \* calls made

worktreeVars == <<wtOnDisk, wtLast, wtOps>>

VARIABLES
    \* --- a sender on a channel handed to collectEvents
    closedFirst    \* the channel was closed while the context was not cancelled

collectVars == <<closedFirst>>

runnerVars == <<testCommandEmpty, baseTestResults, baselineCalled>>
arbVars == <<patches, spc, evalCount, runCount, cstate, results, runOf, selectRet,
             invocation, prevRet>>
evalVars == <<evalDiff, evalRet>>
fnVars == <<fnArgs, fnRet>>

otherThanAdapter == <<runnerVars, arbVars, evalVars, fnVars, driverVars, registryVars,
                      watchdogVars, worktreeVars, collectVars>>

vars == <<adapterVars, runnerVars, arbVars, evalVars, fnVars, driverVars, registryVars,
          watchdogVars, worktreeVars, collectVars>>

\* A value that may be absent (a nil pointer, a call that has not returned) is
\* a sequence of at most one element.
Nil == <<>>
Some(v) == <<v>>

\* all sequences over S of length at most n
SeqsUpTo(S, n) == UNION {[1..k -> S] : k \in 0..n}

(***************************************************************************)
(* Event protocol: the lines of an agent's stdout and their decoding.      *)
(***************************************************************************)
\* A stdout line.  form: "json" (decodes as an Event), "garbage" (does not
\* decode), "blank" (empty or whitespace only), "long" (longer than the
\* scanner's maximal token).  A json line may carry agent_id and sequence_num.
JsonLines == [form : {"json"}, agent_id : {"", "other"}, sequence_num : {0, 2}]

PlainLine == [form |-> "json", agent_id |-> "", sequence_num |-> 0]

StdoutLines == JsonLines \cup
    {[form |-> f, agent_id |-> "", sequence_num |-> 0] : f \in {"garbage", "blank", "long"}}

NoEvent == [type |-> "none", agent |-> "", seq |-> 0, code |-> ""]

\* protocol.NewEvent(type, agentID, sequenceNum) with an ErrorPayload of the given code
NewErrorEvent(agentID, sequenceNum, code) ==
    [type |-> "error", agent |-> agentID, seq |-> sequenceNum, code |-> code]

\* protocol.Unmarshal: json.Unmarshal into an Event; empty input and garbage fail
Unmarshal(line) ==
    IF line.form = "json"
    THEN [err |-> FALSE,
          event |-> [type |-> "agent", agent |-> line.agent_id,
                     seq |-> line.sequence_num, code |-> ""]]
    ELSE [err |-> TRUE, event |-> NoEvent]

NoPending == [ev |-> NoEvent, next |-> "none"]

(***************************************************************************)
(* The CLI adapter.                                                        *)
(***************************************************************************)
AdapterInit ==
    /\ cmdSet = FALSE
    /\ proc = "nil"
    /\ exitOK = FALSE
    /\ \/ alphabet = StdoutLines /\ budget \in 0..MaxLines
       \/ alphabet = {PlainLine} /\ budget \in (MaxLines + 1)..(ChanCap + MaxExtra)
    /\ startRet = "none"
    /\ chanReturned = FALSE
    /\ rpc = "none"
    /\ seq = 0
    /\ pending = NoPending
    /\ eventCh = <<>>
    /\ closeCount = 0
    /\ sendOnClosed = FALSE
    /\ emitted = <<>>
    /\ ctxDone = FALSE
    /\ cpc = "idle"
    /\ events = <<>>
    /\ shutdownCalls = 0
    /\ shutdownErrs = 0
    /\ scanned = <<>>

\* StartFail without its return: the reader goroutine is started all the same
StartFailAndGoOn ==
    /\ startRet = "none"
    /\ UNCHANGED otherThanAdapter
    /\ cmdSet' = TRUE
    /\ closeCount' = closeCount + 1
    /\ startRet' = "error"
    /\ rpc' = "scan"
    /\ seq' = 1
    /\ UNCHANGED <<proc, exitOK, alphabet, budget, chanReturned, pending,
                   eventCh, sendOnClosed, emitted, ctxDone, cpc, events,
                   shutdownCalls, shutdownErrs, scanned>>

\* Start, failing at StdoutPipe or at cmd.Start: the channel is closed and
\* nil is returned; a.cmd stays set, a.cmd.Process stays nil.
StartFail ==
    /\ startRet = "none"
    /\ UNCHANGED otherThanAdapter
    /\ cmdSet' = TRUE
    /\ closeCount' = closeCount + 1
    /\ startRet' = "error"
    /\ UNCHANGED <<proc, exitOK, alphabet, budget, chanReturned, rpc, seq, pending,
                   eventCh, sendOnClosed, emitted, ctxDone, cpc, events,
                   shutdownCalls, shutdownErrs, scanned>>

\* Start, succeeding: the process runs, the reader goroutine is started with
\* seq := 1 and the channel is returned.  cmd.Start refuses a context that is
\* already done.
StartOK ==
    /\ startRet = "none"
    /\ UNCHANGED otherThanAdapter
    /\ ~ctxDone
    /\ cmdSet' = TRUE
    /\ proc' = "running"
    /\ rpc' = "scan"
    /\ seq' = 1
    /\ startRet' = "ok"
    /\ chanReturned' = TRUE
    /\ cpc' = "collect"
    /\ UNCHANGED <<exitOK, alphabet, budget, pending, eventCh, closeCount,
                   sendOnClosed, emitted, ctxDone, events, shutdownCalls, shutdownErrs, scanned>>

\* ReaderOnLine leaving the loop at a line that does not decode
ReaderOnLineStopAtParseError(line) ==
    IF line.form = "long"
    THEN /\ pending' = [ev |-> NewErrorEvent(AdapterID, seq, "io_error"), next |-> "wait"]
         /\ seq' = seq
    ELSE LET u == Unmarshal(line) IN
         IF u.err
         THEN /\ pending' = [ev |-> NewErrorEvent(AdapterID, seq, "parse_error"),
                             next |-> "wait"]
              /\ seq' = seq + 1
         ELSE LET withID == IF u.event.agent = ""
                            THEN [u.event EXCEPT !.agent = AdapterID]
                            ELSE u.event
                  withSeq == IF withID.seq = 0
                             THEN [withID EXCEPT !.seq = seq]
                             ELSE withID
              IN /\ pending' = [ev |-> withSeq, next |-> "scan"]
                 /\ seq' = IF withID.seq = 0 THEN seq + 1 ELSE seq

\* One iteration of the reader's loop on the line the scanner delivered.
ReaderOnLine(line) ==
    IF line.form = "long"
    THEN \* scanner.Scan() fails; scanner.Err() != nil: io_error event, seq not advanced
         /\ pending' = [ev |-> NewErrorEvent(AdapterID, seq, "io_error"), next |-> "wait"]
         /\ seq' = seq
    ELSE LET u == Unmarshal(line) IN
         IF u.err
         THEN /\ pending' = [ev |-> NewErrorEvent(AdapterID, seq, "parse_error"),
                             next |-> "scan"]
              /\ seq' = seq + 1
         ELSE LET withID == IF u.event.agent = ""
                            THEN [u.event EXCEPT !.agent = AdapterID]
                            ELSE u.event
                  withSeq == IF withID.seq = 0
                             THEN [withID EXCEPT !.seq = seq]
                             ELSE withID
              IN /\ pending' = [ev |-> withSeq, next |-> "scan"]
                 /\ seq' = IF withID.seq = 0 THEN seq + 1 ELSE seq

\* scanner.Scan() returns a line: the running process writes one, or one is
\* still in the pipe of a terminated process.
ReaderScan ==
    /\ rpc = "scan"
    /\ UNCHANGED otherThanAdapter
    /\ budget > 0
    /\ \E line \in alphabet :
          /\ ReaderOnLine(line)
          /\ scanned' = Append(scanned, line.form)
    /\ budget' = budget - 1
    /\ rpc' = "send"
    /\ UNCHANGED <<cmdSet, proc, exitOK, alphabet, startRet, chanReturned, eventCh,
                   closeCount, sendOnClosed, emitted, ctxDone, cpc, events,
                   shutdownCalls, shutdownErrs>>

\* scanner.Scan() returns false at end of stream: the process is gone and the
\* pipe is drained.
ReaderEOF ==
    /\ rpc = "scan"
    /\ UNCHANGED otherThanAdapter
    /\ budget = 0
    /\ proc \in {"zombie", "reaped"}
    /\ rpc' = "wait"
    /\ UNCHANGED <<cmdSet, proc, exitOK, alphabet, budget, startRet, chanReturned, seq,
                   pending, eventCh, closeCount, sendOnClosed, emitted, ctxDone, cpc,
                   events, shutdownCalls, shutdownErrs, scanned>>

\* eventCh <- event: blocks while the buffer is full.
ReaderSend ==
    /\ rpc = "send"
    /\ UNCHANGED otherThanAdapter
    /\ Len(eventCh) < ChanCap
    /\ eventCh' = Append(eventCh, pending.ev)
    /\ emitted' = Append(emitted, pending.ev)
    /\ sendOnClosed' = (sendOnClosed \/ closeCount > 0)
    /\ rpc' = pending.next
    /\ pending' = NoPending
    /\ UNCHANGED <<cmdSet, proc, exitOK, alphabet, budget, startRet, chanReturned, seq,
                   closeCount, ctxDone, cpc, events, shutdownCalls, shutdownErrs, scanned>>

\* ReaderWait without the test of ctx.Err()
ReaderWaitIgnoringCtx ==
    /\ rpc = "wait"
    /\ UNCHANGED otherThanAdapter
    /\ proc = "zombie"
    /\ proc' = "reaped"
    /\ IF ~exitOK
       THEN /\ pending' = [ev |-> NewErrorEvent(AdapterID, seq, "command_error"),
                           next |-> "close"]
            /\ rpc' = "send"
       ELSE /\ pending' = pending
            /\ rpc' = "close"
    /\ UNCHANGED <<cmdSet, exitOK, alphabet, budget, startRet, chanReturned, seq, eventCh,
                   closeCount, sendOnClosed, emitted, ctxDone, cpc, events,
                   shutdownCalls, shutdownErrs, scanned>>

\* a.cmd.Wait() returns once the process has terminated; a command_error
\* event follows if it failed and the context is not cancelled.
ReaderWait ==
    /\ rpc = "wait"
    /\ UNCHANGED otherThanAdapter
    /\ proc = "zombie"
    /\ proc' = "reaped"
    /\ IF ~exitOK /\ ~ctxDone
       THEN /\ pending' = [ev |-> NewErrorEvent(AdapterID, seq, "command_error"),
                           next |-> "close"]
            /\ rpc' = "send"
       ELSE /\ pending' = pending
            /\ rpc' = "close"
    /\ UNCHANGED <<cmdSet, exitOK, alphabet, budget, startRet, chanReturned, seq, eventCh,
                   closeCount, sendOnClosed, emitted, ctxDone, cpc, events,
                   shutdownCalls, shutdownErrs, scanned>>

\* defer close(eventCh)
ReaderClose ==
    /\ rpc = "close"
    /\ UNCHANGED otherThanAdapter
    /\ closeCount' = closeCount + 1
    /\ rpc' = "done"
    /\ UNCHANGED <<cmdSet, proc, exitOK, alphabet, budget, startRet, chanReturned, seq,
                   pending, eventCh, sendOnClosed, emitted, ctxDone, cpc, events,
                   shutdownCalls, shutdownErrs, scanned>>

\* The subprocess terminates by itself with status 0 or not; what it wrote
\* and the reader has not read yet stays in the pipe.
ProcExit ==
    /\ proc = "running"
    /\ UNCHANGED otherThanAdapter
    /\ proc' = "zombie"
    /\ exitOK' \in BOOLEAN
    /\ budget' \in 0..budget
    /\ UNCHANGED <<cmdSet, alphabet, startRet, chanReturned, rpc, seq, pending, eventCh,
                   closeCount, sendOnClosed, emitted, ctxDone, cpc, events,
                   shutdownCalls, shutdownErrs, scanned>>

\* os.Process.Kill: an error once the process has been waited for; otherwise
\* the signal is delivered, which terminates a running process.
KillProcess ==
    /\ proc' = IF proc = "running" THEN "zombie" ELSE proc
    /\ exitOK' = IF proc = "running" THEN FALSE ELSE exitOK
    /\ IF proc = "running" THEN budget' \in 0..budget ELSE budget' = budget

\* Adapter.Shutdown, under the adapter's mutex.
Shutdown ==
    /\ shutdownCalls < MaxShutdown
    /\ UNCHANGED otherThanAdapter
    /\ shutdownCalls' = shutdownCalls + 1
    /\ IF cmdSet /\ proc # "nil"
       THEN /\ KillProcess
            /\ shutdownErrs' = IF proc = "reaped" THEN shutdownErrs + 1 ELSE shutdownErrs
       ELSE UNCHANGED <<proc, exitOK, budget, shutdownErrs>>
    /\ UNCHANGED <<cmdSet, alphabet, startRet, chanReturned, rpc, seq, pending, eventCh,
                   closeCount, sendOnClosed, emitted, ctxDone, cpc, events, scanned>>

\* The context is cancelled (deadline or interrupt).
CtxCancel ==
    /\ ~ctxDone
    /\ UNCHANGED otherThanAdapter
    /\ ctxDone' = TRUE
    /\ UNCHANGED <<cmdSet, proc, exitOK, alphabet, budget, startRet, chanReturned, rpc,
                   seq, pending, eventCh, closeCount, sendOnClosed, emitted, cpc, events,
                   shutdownCalls, shutdownErrs, scanned>>

\* exec.CommandContext: the process is killed once the context is done.
CtxKill ==
    /\ ctxDone
    /\ UNCHANGED otherThanAdapter
    /\ proc = "running"
    /\ KillProcess
    /\ UNCHANGED <<cmdSet, alphabet, startRet, chanReturned, rpc, seq, pending, eventCh,
                   closeCount, sendOnClosed, emitted, ctxDone, cpc, events,
                   shutdownCalls, shutdownErrs, scanned>>

(***************************************************************************)
(* The driver's collector, collectEvents.                                  *)
(***************************************************************************)
\* the receive of collectEvents appending whatever it has received
CollectRecvKeepingNil ==
    /\ cpc = "collect"
    /\ UNCHANGED otherThanAdapter
    /\ eventCh # <<>>
    /\ events' = Append(events, Head(eventCh))
    /\ eventCh' = Tail(eventCh)
    /\ UNCHANGED <<cmdSet, proc, exitOK, alphabet, budget, startRet, chanReturned, rpc,
                   seq, pending, closeCount, sendOnClosed, emitted, ctxDone, cpc,
                   shutdownCalls, shutdownErrs, scanned>>

\* case event, ok := <-eventCh with ok: the event is appended unless it is
\* nil (the adapter's reader never sends nil; NoEvent stands for the nil
\* pointer).
CollectRecv ==
    /\ cpc = "collect"
    /\ UNCHANGED otherThanAdapter
    /\ eventCh # <<>>
    /\ events' = IF Head(eventCh) # NoEvent THEN Append(events, Head(eventCh)) ELSE events
    /\ eventCh' = Tail(eventCh)
    /\ UNCHANGED <<cmdSet, proc, exitOK, alphabet, budget, startRet, chanReturned, rpc,
                   seq, pending, closeCount, sendOnClosed, emitted, ctxDone, cpc,
                   shutdownCalls, shutdownErrs, scanned>>

\* case event, ok := <-eventCh with !ok: the channel is closed and drained.
CollectClosed ==
    /\ cpc = "collect"
    /\ UNCHANGED otherThanAdapter
    /\ eventCh = <<>>
    /\ closeCount > 0
    /\ cpc' = "returned"
    /\ UNCHANGED <<cmdSet, proc, exitOK, alphabet, budget, startRet, chanReturned, rpc,
                   seq, pending, eventCh, closeCount, sendOnClosed, emitted, ctxDone,
                   events, shutdownCalls, shutdownErrs, scanned>>

\* case <-ctx.Done(): return what was collected.
CollectCtxDone ==
    /\ cpc = "collect"
    /\ UNCHANGED otherThanAdapter
    /\ ctxDone
    /\ cpc' = "returned"
    /\ UNCHANGED <<cmdSet, proc, exitOK, alphabet, budget, startRet, chanReturned, rpc,
                   seq, pending, eventCh, closeCount, sendOnClosed, emitted, ctxDone,
                   events, shutdownCalls, shutdownErrs, scanned>>

AdapterNext ==
    \/ StartFail
    \/ StartOK
    \/ ReaderScan
    \/ ReaderEOF
    \/ ReaderSend
    \/ ReaderWait
    \/ ReaderClose
    \/ ProcExit
    \/ Shutdown
    \/ CtxCancel
    \/ CtxKill
    \/ CollectRecv
    \/ CollectClosed
    \/ CollectCtxDone

(***************************************************************************)
(* The test runner.                                                        *)
(***************************************************************************)
\* A line of the test command's combined output: "ok" ("ok\tpkg ..."),
\* "FAIL" ("FAIL\tpkg ..."), a test2json object with a "Test" field and
\* Action pass, fail, skip or run, or any other text.
OutLines == {"ok", "FAIL", "jpass", "jfail", "jskip", "jrun", "text"}

Outputs(n) == SeqsUpTo(OutLines, n)

DeadlineExceeded == "context deadline exceeded"

\* what cmd.Run() returns ("" is nil) and what ctx.Err() is afterwards
CmdErrs == {"", "exit status 1"}
CtxErrs == {"", DeadlineExceeded}

\* the loop body of parseTestResults on one line of the output
ParseLine(r, line) ==
    LET r1 == IF line = "ok"
              THEN [r EXCEPT !.total = @ + 1, !.passed = @ + 1]
              ELSE IF line = "FAIL"
                   THEN [r EXCEPT !.total = @ + 1, !.failed = @ + 1]
                   ELSE r
    IN CASE line = "jpass" -> [r1 EXCEPT !.total = @ + 1, !.passed = @ + 1]
         [] line = "jfail" -> [r1 EXCEPT !.total = @ + 1, !.failed = @ + 1]
         [] line = "jskip" -> [r1 EXCEPT !.total = @ + 1, !.skipped = @ + 1]
         [] OTHER -> r1

RECURSIVE ParseLines(_, _)
ParseLines(r, output) ==
    IF output = <<>> THEN r ELSE ParseLines(ParseLine(r, Head(output)), Tail(output))

\* parseTestResults without the test it assumes when it has found none
parseTestResultsAsCounted(output, runErr) ==
    LET r0 == [success |-> (runErr = ""), total |-> 0, passed |-> 0, failed |-> 0,
               skipped |-> 0, error |-> runErr]
        r1 == ParseLines(r0, output)
    IN [r1 EXCEPT !.success = (r1.success /\ r1.failed = 0)]

\* parseTestResults(output, duration, runErr); Duration and Output are
\* carried along unchanged and left out of the record
parseTestResults(output, runErr) ==
    LET r0 == [success |-> (runErr = ""), total |-> 0, passed |-> 0, failed |-> 0,
               skipped |-> 0, error |-> runErr]
        r1 == ParseLines(r0, output)
        r2 == IF r1.total = 0 /\ r1.success
              THEN [r1 EXCEPT !.total = 1, !.passed = 1]
              ELSE r1
    IN [r2 EXCEPT !.success = (r2.success /\ r2.failed = 0)]

\* Run handing the deadline error to its caller
TestRunnerRunPropagatingDeadline(cmdEmpty, output, cmdErr, ctxErr) ==
    IF cmdEmpty \/ ctxErr = DeadlineExceeded
    THEN [err |-> TRUE, result |-> Nil]
    ELSE [err |-> FALSE, result |-> Some(parseTestResults(output, cmdErr))]

\* TestRunner.Run: (result, error)
TestRunnerRun(cmdEmpty, output, cmdErr, ctxErr) ==
    IF cmdEmpty
    THEN [err |-> TRUE, result |-> Nil]
    ELSE LET err == IF ctxErr = DeadlineExceeded THEN ctxErr ELSE cmdErr
         IN [err |-> FALSE, result |-> Some(parseTestResults(output, err))]

\* every outcome one Run call can have, with and without a test command
RunsOfCommand ==
    {TestRunnerRun(FALSE, o, e, c) : o \in Outputs(MaxOutLines), e \in CmdErrs, c \in CtxErrs}

RunsOfEmptyCommand ==
    {TestRunnerRun(TRUE, o, e, c) : o \in Outputs(MaxOutLines), e \in CmdErrs, c \in CtxErrs}

RunOutcomes(cmdEmpty) == IF cmdEmpty THEN RunsOfEmptyCommand ELSE RunsOfCommand

\* CompareResults(before, after): (improved, reason)
CompareResults(before, after) ==
    IF ~before.success /\ after.success
    THEN [improved |-> TRUE, reason |-> "Tests now passing"]
    ELSE IF ~before.success /\ ~after.success /\ after.failed < before.failed
    THEN [improved |-> TRUE, reason |-> "Reduced failing tests"]
    ELSE IF after.passed > before.passed
    THEN [improved |-> TRUE, reason |-> "Increased passing tests"]
    ELSE IF before.success /\ after.success
    THEN [improved |-> FALSE, reason |-> "No change in test results, all tests still passing"]
    ELSE IF ~before.success /\ ~after.success
            /\ before.failed = after.failed /\ before.passed = after.passed
    THEN [improved |-> FALSE, reason |-> "No change in test results, same failures"]
    ELSE IF before.success /\ ~after.success
    THEN [improved |-> FALSE, reason |-> "Tests now failing, patch introduces regression"]
    ELSE [improved |-> FALSE, reason |-> "No significant change in test results"]

(***************************************************************************)
(* Diffs.  A diff is a sequence of lines, a line a sequence of symbols:    *)
(* "+", "-", " " are single characters, "x" is any other text, and the     *)
(* conflict markers and the file header are one symbol each.               *)
(***************************************************************************)
FileHeader == <<"diff --git a/f b/f">>

Markers == {"<<<<<<<", "=======", ">>>>>>>"}

DiffLines ==
    { FileHeader,
      <<"+", "x">>, <<"-", "x">>, <<" ", "x">>,
      <<"+", "+", "+", " ", "x">>, <<"-", "-", "-", " ", "x">>,
      <<"<<<<<<<">>, <<"=======">>, <<">>>>>>>">>,
      <<"+", "<<<<<<<">>, <<"-", "=======">>,
      <<" ">>, <<>> }

AllDiffs == SeqsUpTo(DiffLines, MaxDiffLines)

\* strings.HasPrefix
HasPrefix(line, prefix) ==
    /\ Len(line) >= Len(prefix)
    /\ SubSeq(line, 1, Len(prefix)) = prefix

\* strings.TrimSpace(diff) == ""
IsBlank(diff) == \A i \in 1..Len(diff) : \A j \in 1..Len(diff[i]) : diff[i][j] = " "

\* the loop body of GetDiffStats on one line
DiffStatsLine(st, line) ==
    IF line = FileHeader
    THEN [st EXCEPT !.FilesChanged = @ + 1, !.inFile = TRUE]
    ELSE IF ~st.inFile
    THEN st
    ELSE LET counted ==
                 IF HasPrefix(line, <<"+">>) /\ ~HasPrefix(line, <<"+", "+", "+">>)
                 THEN [st EXCEPT !.LinesAdded = @ + 1]
                 ELSE IF HasPrefix(line, <<"-">>) /\ ~HasPrefix(line, <<"-", "-", "-">>)
                      THEN [st EXCEPT !.LinesRemoved = @ + 1]
                      ELSE st
         IN IF \E m \in Markers : HasPrefix(line, <<m>>)
            THEN [counted EXCEPT !.HasConflicts = TRUE]
            ELSE counted

RECURSIVE DiffStatsLines(_, _)
DiffStatsLines(st, diff) ==
    IF diff = <<>> THEN st ELSE DiffStatsLines(DiffStatsLine(st, Head(diff)), Tail(diff))

\* GetDiffStats(diff)
GetDiffStats(diff) ==
    LET st == DiffStatsLines([FilesChanged |-> 0, LinesAdded |-> 0, LinesRemoved |-> 0,
                              HasConflicts |-> FALSE, inFile |-> FALSE], diff)
    IN [FilesChanged |-> st.FilesChanged, LinesAdded |-> st.LinesAdded,
        LinesRemoved |-> st.LinesRemoved, HasConflicts |-> st.HasConflicts]

(***************************************************************************)
(* The arbitrator.                                                         *)
(***************************************************************************)
\* calculateScore with the small-change bonus ending below 10 lines
calculateScoreBelowTen(improved, diffStats, testResults) ==
    LET s1 == IF improved THEN 100 ELSE 0
        s2 == IF testResults.success THEN s1 + 50 ELSE s1
        s3 == s2 + testResults.passed * 5
        s4 == s3 - testResults.failed * 10
        totalChanges == diffStats.LinesAdded + diffStats.LinesRemoved
        s5 == IF totalChanges > 0 /\ totalChanges < 10
              THEN s4 + 5
              ELSE IF totalChanges > 50 THEN s4 - 5 ELSE s4
    IN IF testResults.success /\ totalChanges < 20 THEN s5 + 10 ELSE s5

\* calculateScore adding to the score of a very large change
calculateScoreRewardingLarge(improved, diffStats, testResults) ==
    LET s1 == IF improved THEN 100 ELSE 0
        s2 == IF testResults.success THEN s1 + 50 ELSE s1
        s3 == s2 + testResults.passed * 5
        s4 == s3 - testResults.failed * 10
        totalChanges == diffStats.LinesAdded + diffStats.LinesRemoved
        s5 == IF totalChanges > 0 /\ totalChanges <= 10
              THEN s4 + 5
              ELSE IF totalChanges > 50 THEN s4 + 5 ELSE s4
    IN IF testResults.success /\ totalChanges < 20 THEN s5 + 10 ELSE s5

\* calculateScore(improved, diffStats, testResults)
calculateScore(improved, diffStats, testResults) ==
    LET s1 == IF improved THEN 100 ELSE 0
        s2 == IF testResults.success THEN s1 + 50 ELSE s1
        s3 == s2 + testResults.passed * 5
        s4 == s3 - testResults.failed * 10
        totalChanges == diffStats.LinesAdded + diffStats.LinesRemoved
        s5 == IF totalChanges > 0 /\ totalChanges <= 10
              THEN s4 + 5
              ELSE IF totalChanges > 50 THEN s4 - 5 ELSE s4
    IN IF testResults.success /\ totalChanges < 20 THEN s5 + 10 ELSE s5

\* EvaluatePatch running the tests before it looks for conflicts
EvaluatePatchTestsFirst(agentID, diff, run) ==
    IF IsBlank(diff)
    THEN [err |-> FALSE, ranTests |-> FALSE,
          result |-> Some([agent |-> agentID, score |-> 0, reason |-> "No changes made",
                           tests |-> Nil])]
    ELSE LET diffStats == GetDiffStats(diff) IN
         IF run.err
         THEN [err |-> TRUE, ranTests |-> TRUE, result |-> Nil]
         ELSE IF diffStats.HasConflicts
         THEN [err |-> FALSE, ranTests |-> TRUE,
               result |-> Some([agent |-> agentID, score |-> -10,
                                reason |-> "Patch contains merge conflicts",
                                tests |-> Nil])]
         ELSE LET cmp == CompareResults(baseTestResults[1], run.result[1])
                  score == calculateScore(cmp.improved, diffStats, run.result[1])
              IN [err |-> FALSE, ranTests |-> TRUE,
                  result |-> Some([agent |-> agentID, score |-> score,
                                   reason |-> cmp.reason, tests |-> run.result])]

\* EvaluatePatch(ctx, agentID, worktreePath, diff, events), where run is what
\* testRunner.Run returns if it is invoked: (result, error), and whether the
\* test runner was invoked
EvaluatePatch(agentID, diff, run) ==
    IF IsBlank(diff)
    THEN [err |-> FALSE, ranTests |-> FALSE,
          result |-> Some([agent |-> agentID, score |-> 0, reason |-> "No changes made",
                           tests |-> Nil])]
    ELSE LET diffStats == GetDiffStats(diff) IN
         IF diffStats.HasConflicts
         THEN [err |-> FALSE, ranTests |-> FALSE,
               result |-> Some([agent |-> agentID, score |-> -10,
                                reason |-> "Patch contains merge conflicts",
                                tests |-> Nil])]
         ELSE IF run.err
         THEN [err |-> TRUE, ranTests |-> TRUE, result |-> Nil]
         ELSE LET cmp == CompareResults(baseTestResults[1], run.result[1])
                  score == calculateScore(cmp.improved, diffStats, run.result[1])
              IN [err |-> FALSE, ranTests |-> TRUE,
                  result |-> Some([agent |-> agentID, score |-> score,
                                   reason |-> cmp.reason, tests |-> run.result])]

\* SetBaselineTestResults: a.baseTestResults, err = a.testRunner.Run(ctx, a.baseRepoPath)
SetBaselineTestResults ==
    /\ ~baselineCalled
    /\ baselineCalled' = TRUE
    /\ \E run \in RunOutcomes(testCommandEmpty) : baseTestResults' = run.result
    /\ UNCHANGED <<testCommandEmpty, adapterVars, arbVars, evalVars, fnVars,
                 driverVars, registryVars, watchdogVars, worktreeVars, collectVars>>

\* the less function with the comparison turned round
LessAscending(a, b) == a.score < b.score

\* the less function handed to sort.Slice: results[i].Score > results[j].Score
Less(a, b) == a.score > b.score

\* sort.Slice on a slice of at most 12 elements is an insertion sort: each
\* element moves left past the elements it is less than
RECURSIVE InsertLess(_, _)
InsertLess(sorted, x) ==
    IF sorted = <<>> \/ ~Less(x, sorted[Len(sorted)])
    THEN Append(sorted, x)
    ELSE Append(InsertLess(SubSeq(sorted, 1, Len(sorted) - 1), x), sorted[Len(sorted)])

RECURSIVE SortSlice(_)
SortSlice(s) ==
    IF s = <<>> THEN <<>>
    ELSE InsertLess(SortSlice(SubSeq(s, 1, Len(s) - 1)), s[Len(s)])

AgentIDs == 1..MaxAgents

\* the diffs the candidates of a selection carry: no change, a conflict, a change
ArbDiffs ==
    { <<>>,
      <<FileHeader, <<"<<<<<<<">>, <<"+", "x">>>>,
      <<FileHeader, <<"-", "x">>, <<"+", "x">>>> }

\* SelectBestPatch has not returned
NoRet == [err |-> "", winner |-> Nil]

\* a per-candidate record of a call that has just been entered
Fresh(f) == [a \in DOMAIN patches |-> f]

\* SelectBestPatch is entered: an empty map fails at once.
SelectBegin ==
    /\ spc = "new"
    /\ baselineCalled
    /\ invocation' = 1
    /\ IF DOMAIN patches = {}
       THEN /\ selectRet' = [err |-> "no patches to evaluate", winner |-> Nil]
            /\ spc' = "done"
       ELSE /\ selectRet' = NoRet
            /\ spc' = "eval"
    /\ UNCHANGED <<patches, evalCount, runCount, cstate, results, runOf, prevRet,
                   runnerVars, adapterVars, evalVars, fnVars,
                   driverVars, registryVars, watchdogVars, worktreeVars, collectVars>>

\* one iteration of "for agentID, patch := range patches": the map is visited
\* in any order, each key once.  The test command is taken to behave the same
\* each time it is run in the same worktree.
SelectEval(a) ==
    /\ spc = "eval"
    /\ evalCount[a] = 0
    /\ \E run \in (IF runOf[a] = Nil THEN RunOutcomes(testCommandEmpty) ELSE {runOf[a][1]}) :
          LET r == EvaluatePatch(a, patches[a], run) IN
          /\ runOf' = [runOf EXCEPT ![a] = IF r.ranTests THEN Some(run) ELSE @]
          /\ evalCount' = [evalCount EXCEPT ![a] = @ + 1]
          /\ runCount' = [runCount EXCEPT ![a] = IF r.ranTests THEN @ + 1 ELSE @]
          /\ cstate' = [cstate EXCEPT ![a] =
                           IF r.err THEN "dropped"
                           ELSE IF r.ranTests THEN "scored" ELSE "no-tests"]
          /\ results' = IF r.err THEN results ELSE Append(results, r.result[1])
    /\ UNCHANGED <<patches, spc, selectRet, invocation, prevRet,
                   runnerVars, adapterVars, evalVars, fnVars,
                   driverVars, registryVars, watchdogVars, worktreeVars, collectVars>>

\* the end of SelectBestPatch failing as soon as one evaluation has failed
SelectFinishFailOnAnyError ==
    /\ spc = "eval"
    /\ \A a \in DOMAIN patches : evalCount[a] > 0
    /\ IF Len(results) < Cardinality(DOMAIN patches)
       THEN selectRet' = [err |-> "all patches failed evaluation", winner |-> Nil]
       ELSE selectRet' = [err |-> "", winner |-> Some(SortSlice(results)[1])]
    /\ spc' = "done"
    /\ UNCHANGED <<patches, evalCount, runCount, cstate, results, runOf, invocation,
                   prevRet, runnerVars, adapterVars, evalVars, fnVars,
                   driverVars, registryVars, watchdogVars, worktreeVars, collectVars>>

\* after the loop: fail if nothing was scored, else sort by score and return
\* the first
SelectFinish ==
    /\ spc = "eval"
    /\ \A a \in DOMAIN patches : evalCount[a] > 0
    /\ IF results = <<>>
       THEN selectRet' = [err |-> "all patches failed evaluation", winner |-> Nil]
       ELSE selectRet' = [err |-> "", winner |-> Some(SortSlice(results)[1])]
    /\ spc' = "done"
    /\ UNCHANGED <<patches, evalCount, runCount, cstate, results, runOf, invocation,
                   prevRet, runnerVars, adapterVars, evalVars, fnVars,
                   driverVars, registryVars, watchdogVars, worktreeVars, collectVars>>

\* SelectBestPatch is entered once more on the same map: it starts from fresh
\* locals, and what the first call returned is kept in prevRet
SelectBeginAgain ==
    /\ spc = "done"
    /\ invocation = 1
    /\ invocation' = 2
    /\ prevRet' = selectRet
    /\ results' = <<>>
    /\ evalCount' = Fresh(0)
    /\ runCount' = Fresh(0)
    /\ cstate' = Fresh("received")
    /\ IF DOMAIN patches = {}
       THEN /\ selectRet' = [err |-> "no patches to evaluate", winner |-> Nil]
            /\ spc' = "done"
       ELSE /\ selectRet' = NoRet
            /\ spc' = "eval"
    /\ UNCHANGED <<patches, runOf, runnerVars, adapterVars, evalVars, fnVars,
                 driverVars, registryVars, watchdogVars, worktreeVars, collectVars>>

\* one EvaluatePatch call on any diff
EvaluateOnce ==
    /\ baselineCalled
    /\ evalRet = Nil
    /\ \E run \in RunOutcomes(testCommandEmpty) :
          evalRet' = Some(EvaluatePatch(AdapterID, evalDiff, run))
    /\ UNCHANGED <<evalDiff, runnerVars, adapterVars, arbVars, fnVars,
                 driverVars, registryVars, watchdogVars, worktreeVars, collectVars>>

(***************************************************************************)
(* The driver: run, runAgents with one task per agent, and the worktree    *)
(* manager the tasks share.  An agent's adapter is seen from outside: its  *)
(* process, the events it has put on its channel, the channel's close.     *)
(***************************************************************************)
\* the elements of a slice
Range(f) == {f[i] : i \in DOMAIN f}

\* the agents of this run's configuration
DriverAgents == DOMAIN taskPc

\* the slice without the paths in S, in order
RECURSIVE Without(_, _)
Without(slice, S) ==
    IF slice = <<>> THEN <<>>
    ELSE IF Head(slice) \in S THEN Without(Tail(slice), S)
         ELSE <<Head(slice)>> \o Without(Tail(slice), S)

\* run up to the deferred Cleanup: NewWorktreeManager fails and run returns,
\* or the manager exists and Cleanup is deferred
RunNewManager ==
    /\ runPc = "new"
    /\ \/ /\ wmCreated' = TRUE
          /\ runPc' = "setup"
       \/ /\ wmCreated' = FALSE
          /\ runPc' = "returned"
    /\ UNCHANGED <<cleanupRan, driverCtxDone, createdWorktrees, removedWorktrees, taskPc,
                   taskRead, taskPath, taskDiffErr, agentProc, chSent, chClosed, collected,
                   tracked, patchDetails, storeCount, lateWrite>>
    /\ UNCHANGED <<adapterVars, runnerVars, arbVars, evalVars, fnVars, registryVars,
                   watchdogVars, worktreeVars, collectVars>>

\* run from the test runner to the launch of the agent tasks: the baseline
\* tests or CreateFromConfig fail and run returns through Cleanup, or
\* runAgents starts one task per adapter
RunSetup ==
    /\ runPc = "setup"
    /\ \/ /\ runPc' = "cleanup"
          /\ taskPc' = taskPc
       \/ /\ runPc' = "agents"
          /\ taskPc' = [a \in DriverAgents |-> "create"]
    /\ UNCHANGED <<wmCreated, cleanupRan, driverCtxDone, createdWorktrees, removedWorktrees,
                   taskRead, taskPath, taskDiffErr, agentProc, chSent, chClosed, collected,
                   tracked, patchDetails, storeCount, lateWrite>>
    /\ UNCHANGED <<adapterVars, runnerVars, arbVars, evalVars, fnVars, registryVars,
                   watchdogVars, worktreeVars, collectVars>>

\* CreateWorktree up to the read of wm.createdWorktrees in the append: git
\* fails and the task gives up, or the worktree exists and the slice is read
CreateWorktreeRead(a) ==
    /\ taskPc[a] = "create"
    /\ \/ /\ taskPc' = [taskPc EXCEPT ![a] = "done"]
          /\ taskRead' = taskRead
       \/ /\ taskPc' = [taskPc EXCEPT ![a] = "append"]
          /\ taskRead' = [taskRead EXCEPT ![a] = createdWorktrees]
    /\ UNCHANGED <<runPc, wmCreated, cleanupRan, driverCtxDone, createdWorktrees,
                   removedWorktrees, taskPath, taskDiffErr, agentProc, chSent, chClosed,
                   collected, tracked, patchDetails, storeCount, lateWrite>>
    /\ UNCHANGED <<adapterVars, runnerVars, arbVars, evalVars, fnVars, registryVars,
                   watchdogVars, worktreeVars, collectVars>>

\* CreateWorktree, the write of the append and the return: no lock is held
\* between the read and the write
CreateWorktreeWrite(a) ==
    /\ taskPc[a] = "append"
    /\ createdWorktrees' = Append(taskRead[a], a)
    /\ taskRead' = [taskRead EXCEPT ![a] = <<>>]
    /\ taskPath' = [taskPath EXCEPT ![a] = Some(a)]
    /\ taskPc' = [taskPc EXCEPT ![a] = "start"]
    /\ UNCHANGED <<runPc, wmCreated, cleanupRan, driverCtxDone, removedWorktrees,
                   taskDiffErr, agentProc, chSent, chClosed, collected, tracked,
                   patchDetails, storeCount, lateWrite>>
    /\ UNCHANGED <<adapterVars, runnerVars, arbVars, evalVars, fnVars, registryVars,
                   watchdogVars, worktreeVars, collectVars>>

\* adpt.Start: it fails (always so once the context is done) and the task
\* returns, or the process runs
TaskStart(a) ==
    /\ taskPc[a] = "start"
    /\ \/ /\ taskPc' = [taskPc EXCEPT ![a] = "done"]
          /\ agentProc' = agentProc
       \/ /\ ~driverCtxDone
          /\ taskPc' = [taskPc EXCEPT ![a] = "collect"]
          /\ agentProc' = [agentProc EXCEPT ![a] = "running"]
    /\ UNCHANGED <<runPc, wmCreated, cleanupRan, driverCtxDone, createdWorktrees,
                   removedWorktrees, taskRead, taskPath, taskDiffErr, chSent, chClosed,
                   collected, tracked, patchDetails, storeCount, lateWrite>>
    /\ UNCHANGED <<adapterVars, runnerVars, arbVars, evalVars, fnVars, registryVars,
                   watchdogVars, worktreeVars, collectVars>>

\* the agent's adapter puts an event on its channel
AgentEmit(a) ==
    /\ agentProc[a] = "running"
    /\ chSent[a] < MaxEvents
    /\ chSent' = [chSent EXCEPT ![a] = @ + 1]
    /\ UNCHANGED <<runPc, wmCreated, cleanupRan, driverCtxDone, createdWorktrees,
                   removedWorktrees, taskPc, taskRead, taskPath, taskDiffErr, agentProc,
                   chClosed, collected, tracked, patchDetails, storeCount, lateWrite>>
    /\ UNCHANGED <<adapterVars, runnerVars, arbVars, evalVars, fnVars, registryVars,
                   watchdogVars, worktreeVars, collectVars>>

\* the agent's process is gone and its adapter closes the channel
ProcessGone(a) ==
    /\ agentProc' = [agentProc EXCEPT ![a] = "exited"]
    /\ chClosed' = [chClosed EXCEPT ![a] = TRUE]

\* the agent's process exits by itself
AgentExit(a) ==
    /\ agentProc[a] = "running"
    /\ ProcessGone(a)
    /\ UNCHANGED <<runPc, wmCreated, cleanupRan, driverCtxDone, createdWorktrees,
                   removedWorktrees, taskPc, taskRead, taskPath, taskDiffErr, chSent,
                   collected, tracked, patchDetails, storeCount, lateWrite>>
    /\ UNCHANGED <<adapterVars, runnerVars, arbVars, evalVars, fnVars, registryVars,
                   watchdogVars, worktreeVars, collectVars>>

\* exec.CommandContext kills the agent's process once the context is done
AgentCtxKill(a) ==
    /\ driverCtxDone
    /\ agentProc[a] = "running"
    /\ ProcessGone(a)
    /\ UNCHANGED <<runPc, wmCreated, cleanupRan, driverCtxDone, createdWorktrees,
                   removedWorktrees, taskPc, taskRead, taskPath, taskDiffErr, chSent,
                   collected, tracked, patchDetails, storeCount, lateWrite>>
    /\ UNCHANGED <<adapterVars, runnerVars, arbVars, evalVars, fnVars, registryVars,
                   watchdogVars, worktreeVars, collectVars>>

\* an interrupt signal arrives and main's handler cancels the context
Interrupt ==
    /\ ~driverCtxDone
    /\ runPc # "returned"
    /\ driverCtxDone' = TRUE
    /\ UNCHANGED <<runPc, wmCreated, cleanupRan, createdWorktrees, removedWorktrees, taskPc,
                   taskRead, taskPath, taskDiffErr, agentProc, chSent, chClosed, collected,
                   tracked, patchDetails, storeCount, lateWrite>>
    /\ UNCHANGED <<adapterVars, runnerVars, arbVars, evalVars, fnVars, registryVars,
                   watchdogVars, worktreeVars, collectVars>>

\* collectEvents, case event, ok := <-eventCh with ok: the event is appended
\* to the events the task will store
TaskCollectRecv(a) ==
    /\ taskPc[a] = "collect"
    /\ collected[a] < chSent[a]
    /\ collected' = [collected EXCEPT ![a] = @ + 1]
    /\ UNCHANGED <<runPc, wmCreated, cleanupRan, driverCtxDone, createdWorktrees,
                   removedWorktrees, taskPc, taskRead, taskPath, taskDiffErr, agentProc,
                   chSent, chClosed, tracked, patchDetails, storeCount, lateWrite>>
    /\ UNCHANGED <<adapterVars, runnerVars, arbVars, evalVars, fnVars, registryVars,
                   watchdogVars, worktreeVars, collectVars>>

\* collectEvents returns and the task goes on without adpt.Shutdown()
TaskNoShutdown(a) ==
    /\ taskPc[a] = "collect"
    /\ \/ collected[a] = chSent[a] /\ chClosed[a]
       \/ driverCtxDone
    /\ taskPc' = [taskPc EXCEPT ![a] = "getdiff"]
    /\ UNCHANGED <<runPc, wmCreated, cleanupRan, driverCtxDone, createdWorktrees,
                   removedWorktrees, taskRead, taskPath, taskDiffErr, chSent, collected,
                   tracked, patchDetails, storeCount, lateWrite, agentProc, chClosed>>
    /\ UNCHANGED <<adapterVars, runnerVars, arbVars, evalVars, fnVars, registryVars,
                   watchdogVars, worktreeVars, collectVars>>

\* collectEvents returns, the channel being closed and drained or the
\* context done, and adpt.Shutdown() follows: a running process is killed; an
\* error of Shutdown is only logged
TaskShutdown(a) ==
    /\ taskPc[a] = "collect"
    /\ \/ collected[a] = chSent[a] /\ chClosed[a]
       \/ driverCtxDone
    /\ IF agentProc[a] = "running"
       THEN ProcessGone(a)
       ELSE UNCHANGED <<agentProc, chClosed>>
    /\ taskPc' = [taskPc EXCEPT ![a] = "getdiff"]
    /\ UNCHANGED <<runPc, wmCreated, cleanupRan, driverCtxDone, createdWorktrees,
                   removedWorktrees, taskRead, taskPath, taskDiffErr, chSent, collected,
                   tracked, patchDetails, storeCount, lateWrite>>
    /\ UNCHANGED <<adapterVars, runnerVars, arbVars, evalVars, fnVars, registryVars,
                   watchdogVars, worktreeVars, collectVars>>

\* the task storing a candidate although GetDiff has failed
TaskGetDiffIgnoringError(a) ==
    /\ taskPc[a] = "getdiff"
    /\ IF taskPath[a][1] \notin Range(createdWorktrees)
       THEN taskDiffErr' = [taskDiffErr EXCEPT ![a] = "untracked"]
       ELSE \/ taskDiffErr' = taskDiffErr
            \/ taskDiffErr' = [taskDiffErr EXCEPT ![a] = "git"]
    /\ taskPc' = [taskPc EXCEPT ![a] = "store"]
    /\ UNCHANGED <<runPc, wmCreated, cleanupRan, driverCtxDone, createdWorktrees,
                   removedWorktrees, taskRead, taskPath, agentProc, chSent, chClosed,
                   collected, tracked, patchDetails, storeCount, lateWrite>>
    /\ UNCHANGED <<adapterVars, runnerVars, arbVars, evalVars, fnVars, registryVars,
                   watchdogVars, worktreeVars, collectVars>>

\* worktreeManager.GetDiff(worktreePath): the path must be in
\* wm.createdWorktrees and pass git status, and git diff must succeed;
\* otherwise the task logs the error and returns
TaskGetDiff(a) ==
    /\ taskPc[a] = "getdiff"
    /\ IF taskPath[a][1] \notin Range(createdWorktrees)
       THEN /\ taskDiffErr' = [taskDiffErr EXCEPT ![a] = "untracked"]
            /\ taskPc' = [taskPc EXCEPT ![a] = "done"]
       ELSE \/ /\ taskDiffErr' = taskDiffErr
               /\ taskPc' = [taskPc EXCEPT ![a] = "store"]
            \/ /\ taskDiffErr' = [taskDiffErr EXCEPT ![a] = "git"]
               /\ taskPc' = [taskPc EXCEPT ![a] = "done"]
    /\ UNCHANGED <<runPc, wmCreated, cleanupRan, driverCtxDone, createdWorktrees,
                   removedWorktrees, taskRead, taskPath, agentProc, chSent, chClosed,
                   collected, tracked, patchDetails, storeCount, lateWrite>>
    /\ UNCHANGED <<adapterVars, runnerVars, arbVars, evalVars, fnVars, registryVars,
                   watchdogVars, worktreeVars, collectVars>>

\* patchDetails[id] = &core.PatchDetails{...} under mu, then wg.Done()
TaskStore(a) ==
    /\ taskPc[a] = "store"
    /\ patchDetails' = [patchDetails EXCEPT ![a] =
                           Some([WorktreePath |-> taskPath[a][1], Events |-> collected[a]])]
    /\ storeCount' = [storeCount EXCEPT ![a] = @ + 1]
    /\ lateWrite' = (lateWrite \/ runPc # "agents")
    /\ taskPc' = [taskPc EXCEPT ![a] = "done"]
    /\ UNCHANGED <<runPc, wmCreated, cleanupRan, driverCtxDone, createdWorktrees,
                   removedWorktrees, taskRead, taskPath, taskDiffErr, agentProc, chSent,
                   chClosed, collected, tracked>>
    /\ UNCHANGED <<adapterVars, runnerVars, arbVars, evalVars, fnVars, registryVars,
                   watchdogVars, worktreeVars, collectVars>>

\* runAgents without wg.Wait()
RunAgentsReturnAtOnce ==
    /\ runPc = "agents"
    /\ runPc' = "select"
    /\ UNCHANGED <<wmCreated, cleanupRan, driverCtxDone, createdWorktrees, removedWorktrees,
                   taskPc, taskRead, taskPath, taskDiffErr, agentProc, chSent, chClosed,
                   collected, tracked, patchDetails, storeCount, lateWrite>>
    /\ UNCHANGED <<adapterVars, runnerVars, arbVars, evalVars, fnVars, registryVars,
                   watchdogVars, worktreeVars, collectVars>>

\* wg.Wait() returns once every task has called wg.Done(), and runAgents
\* returns the map
RunAgentsReturn ==
    /\ runPc = "agents"
    /\ \A a \in DriverAgents : taskPc[a] = "done"
    /\ runPc' = "select"
    /\ UNCHANGED <<wmCreated, cleanupRan, driverCtxDone, createdWorktrees, removedWorktrees,
                   taskPc, taskRead, taskPath, taskDiffErr, agentProc, chSent, chClosed,
                   collected, tracked, patchDetails, storeCount, lateWrite>>
    /\ UNCHANGED <<adapterVars, runnerVars, arbVars, evalVars, fnVars, registryVars,
                   watchdogVars, worktreeVars, collectVars>>

\* arbitrator.SelectBestPatch(ctx, patchDetails) and the rest of run up to
\* its return statement
RunSelect ==
    /\ runPc = "select"
    /\ runPc' = "cleanup"
    /\ UNCHANGED <<wmCreated, cleanupRan, driverCtxDone, createdWorktrees, removedWorktrees,
                   taskPc, taskRead, taskPath, taskDiffErr, agentProc, chSent, chClosed,
                   collected, tracked, patchDetails, storeCount, lateWrite>>
    /\ UNCHANGED <<adapterVars, runnerVars, arbVars, evalVars, fnVars, registryVars,
                   watchdogVars, worktreeVars, collectVars>>

\* run returning without its deferred Cleanup
RunReturnNoCleanup ==
    /\ runPc = "cleanup"
    /\ runPc' = "returned"
    /\ UNCHANGED <<wmCreated, cleanupRan, driverCtxDone, createdWorktrees, removedWorktrees,
                   taskPc, taskRead, taskPath, taskDiffErr, agentProc, chSent, chClosed,
                   collected, tracked, patchDetails, storeCount, lateWrite>>
    /\ UNCHANGED <<adapterVars, runnerVars, arbVars, evalVars, fnVars, registryVars,
                   watchdogVars, worktreeVars, collectVars>>

\* the deferred worktreeManager.Cleanup(), then run returns: every tracked
\* worktree is removed and dropped from the list unless its removal fails
RunCleanup ==
    /\ runPc = "cleanup"
    /\ \E failed \in SUBSET Range(createdWorktrees) :
          /\ removedWorktrees' = Range(createdWorktrees) \ failed
          /\ createdWorktrees' = Without(createdWorktrees, Range(createdWorktrees) \ failed)
    /\ cleanupRan' = TRUE
    /\ runPc' = "returned"
    /\ UNCHANGED <<wmCreated, driverCtxDone, taskPc, taskRead, taskPath, taskDiffErr,
                   agentProc, chSent, chClosed, collected, tracked, patchDetails,
                   storeCount, lateWrite>>
    /\ UNCHANGED <<adapterVars, runnerVars, arbVars, evalVars, fnVars, registryVars,
                   watchdogVars, worktreeVars, collectVars>>

(***************************************************************************)
(* The adapter registry.  r.mutex is a sync.RWMutex: RLock waits while a   *)
(* writer holds the lock or has called Lock and waits for it; Lock waits   *)
(* for the other writers and then for the read locks to be released.       *)
(***************************************************************************)
\* the adapter types that are registered and asked for
AdapterTypes == {"cli", "http"}

RegOps == {"Register", "Create", "CreateFromConfig", "RegisteredTypes"}

\* r.mutex.RLock() can return
CanRLock == rwWriter = Nil /\ rwPending = {}

\* a task calls one of the registry's methods
RegCall(t) ==
    /\ regPc[t] = "idle"
    /\ \E op \in RegOps :
          /\ regOp' = [regOp EXCEPT ![t] = op]
          /\ regPc' = [regPc EXCEPT ![t] = IF op = "Register" THEN "lock" ELSE "rlock"]
          /\ regLeft' = [regLeft EXCEPT ![t] = IF op = "CreateFromConfig"
                                                  THEN MaxCfgAgents ELSE 0]
    /\ UNCHANGED <<factories, rwReaders, rwWriter, rwPending>>
    /\ UNCHANGED <<adapterVars, runnerVars, arbVars, evalVars, fnVars, driverVars,
                   watchdogVars, worktreeVars, collectVars>>

\* Register, r.mutex.Lock(): the task is the next writer and new read locks
\* wait from now on
RegLockAnnounce(t) ==
    /\ regPc[t] = "lock"
    /\ rwWriter = Nil
    /\ rwPending = {}
    /\ rwPending' = {t}
    /\ regPc' = [regPc EXCEPT ![t] = "lockwait"]
    /\ UNCHANGED <<factories, rwReaders, rwWriter, regOp, regLeft>>
    /\ UNCHANGED <<adapterVars, runnerVars, arbVars, evalVars, fnVars, driverVars,
                   watchdogVars, worktreeVars, collectVars>>

\* Register, r.mutex.Lock() returns once no read lock is held
RegLockAcquire(t) ==
    /\ regPc[t] = "lockwait"
    /\ rwReaders = 0
    /\ rwWriter' = Some(t)
    /\ rwPending' = {}
    /\ regPc' = [regPc EXCEPT ![t] = "write"]
    /\ UNCHANGED <<factories, rwReaders, regOp, regLeft>>
    /\ UNCHANGED <<adapterVars, runnerVars, arbVars, evalVars, fnVars, driverVars,
                   watchdogVars, worktreeVars, collectVars>>

\* Register: r.factories[adapterType] = factory, and the deferred Unlock
RegisterWrite(t) ==
    /\ regPc[t] = "write"
    /\ \E ty \in AdapterTypes : factories' = factories \cup {ty}
    /\ rwWriter' = Nil
    /\ regPc' = [regPc EXCEPT ![t] = "idle"]
    /\ UNCHANGED <<rwReaders, rwPending, regOp, regLeft>>
    /\ UNCHANGED <<adapterVars, runnerVars, arbVars, evalVars, fnVars, driverVars,
                   watchdogVars, worktreeVars, collectVars>>

\* r.mutex.RLock() at the start of Create, CreateFromConfig, RegisteredTypes
RegRLock(t) ==
    /\ regPc[t] = "rlock"
    /\ CanRLock
    /\ rwReaders' = rwReaders + 1
    /\ regPc' = [regPc EXCEPT ![t] = IF regOp[t] = "CreateFromConfig"
                                         THEN (IF regLeft[t] = 0 THEN "runlock" ELSE "create")
                                         ELSE "read"]
    /\ UNCHANGED <<factories, rwWriter, rwPending, regOp, regLeft>>
    /\ UNCHANGED <<adapterVars, runnerVars, arbVars, evalVars, fnVars, driverVars,
                   watchdogVars, worktreeVars, collectVars>>

\* Create and RegisteredTypes: the map is read (and the factory called), and
\* the deferred RUnlock
RegReadUnlock(t) ==
    /\ regPc[t] = "read"
    /\ rwReaders' = rwReaders - 1
    /\ regPc' = [regPc EXCEPT ![t] = "idle"]
    /\ UNCHANGED <<factories, rwWriter, rwPending, regOp, regLeft>>
    /\ UNCHANGED <<adapterVars, runnerVars, arbVars, evalVars, fnVars, driverVars,
                   watchdogVars, worktreeVars, collectVars>>

\* CreateFromConfig, r.Create(adapterConfig): Create's r.mutex.RLock(), taken
\* while the task holds its own read lock
CreateInnerRLock(t) ==
    /\ regPc[t] = "create"
    /\ CanRLock
    /\ rwReaders' = rwReaders + 1
    /\ regPc' = [regPc EXCEPT ![t] = "created"]
    /\ UNCHANGED <<factories, rwWriter, rwPending, regOp, regLeft>>
    /\ UNCHANGED <<adapterVars, runnerVars, arbVars, evalVars, fnVars, driverVars,
                   watchdogVars, worktreeVars, collectVars>>

\* CreateFromConfig, the rest of r.Create(adapterConfig) with its deferred
\* RUnlock: an unknown type ends the loop with an error, else the adapter is
\* stored and the loop goes on
CreateInnerReturn(t) ==
    /\ regPc[t] = "created"
    /\ rwReaders' = rwReaders - 1
    /\ \E ty \in AdapterTypes :
          IF ty \in factories
          THEN /\ regLeft' = [regLeft EXCEPT ![t] = @ - 1]
               /\ regPc' = [regPc EXCEPT ![t] = IF regLeft[t] = 1 THEN "runlock" ELSE "create"]
          ELSE /\ regLeft' = regLeft
               /\ regPc' = [regPc EXCEPT ![t] = "runlock"]
    /\ UNCHANGED <<factories, rwWriter, rwPending, regOp>>
    /\ UNCHANGED <<adapterVars, runnerVars, arbVars, evalVars, fnVars, driverVars,
                   watchdogVars, worktreeVars, collectVars>>

\* CreateFromConfig returns: its deferred RUnlock
CreateFromConfigReturn(t) ==
    /\ regPc[t] = "runlock"
    /\ rwReaders' = rwReaders - 1
    /\ regPc' = [regPc EXCEPT ![t] = "idle"]
    /\ UNCHANGED <<factories, rwWriter, rwPending, regOp, regLeft>>
    /\ UNCHANGED <<adapterVars, runnerVars, arbVars, evalVars, fnVars, driverVars,
                   watchdogVars, worktreeVars, collectVars>>

\* a step of a task inside a registry call
RegStep(t) ==
    \/ RegLockAnnounce(t)
    \/ RegLockAcquire(t)
    \/ RegisterWrite(t)
    \/ RegRLock(t)
    \/ RegReadUnlock(t)
    \/ CreateInnerRLock(t)
    \/ CreateInnerReturn(t)
    \/ CreateFromConfigReturn(t)

(***************************************************************************)
(* Calls of the pure functions.                                            *)
(***************************************************************************)
ScoreInputs ==
    [fn : {"calculateScore"}, improved : BOOLEAN,
     LinesAdded : 0..MaxAdded, LinesRemoved : 0..MaxRemoved,
     success : BOOLEAN, passed : 0..MaxTests, failed : 0..MaxTests]

CallCalculateScore ==
    /\ fnRet = Nil
    /\ fnArgs.fn = "calculateScore"
    /\ fnRet' = Some(calculateScore(fnArgs.improved,
                               [LinesAdded |-> fnArgs.LinesAdded,
                                LinesRemoved |-> fnArgs.LinesRemoved],
                               [success |-> fnArgs.success, passed |-> fnArgs.passed,
                                failed |-> fnArgs.failed]))
    /\ UNCHANGED <<fnArgs, adapterVars, runnerVars, arbVars, evalVars,
                 driverVars, registryVars, watchdogVars, worktreeVars, collectVars>>

\* the test results a Run call can produce
TestResults ==
    {parseTestResults(o, e) : o \in Outputs(MaxCmpLines), e \in CmdErrs \cup CtxErrs}

CompareInputs == [fn : {"CompareResults"}, before : TestResults, after : TestResults]

CallCompareResults ==
    /\ fnRet = Nil
    /\ fnArgs.fn = "CompareResults"
    /\ fnRet' = Some(CompareResults(fnArgs.before, fnArgs.after))
    /\ UNCHANGED <<fnArgs, adapterVars, runnerVars, arbVars, evalVars,
                 driverVars, registryVars, watchdogVars, worktreeVars, collectVars>>

\* a Run call: whether strings.Fields(tr.TestCommand) is empty, the output
\* of the command, what cmd.Run() returned and what ctx.Err() is when Run
\* inspects it (the deadline may expire after the process has exited)
RunInputs ==
    [fn : {"Run"}, cmdEmpty : BOOLEAN, output : Outputs(MaxCmpLines),
     cmdErr : CmdErrs, ctxErr : CtxErrs]

\* a parseTestResults call: the output and the error of the run
ParseInputs ==
    [fn : {"parseTestResults"}, output : Outputs(MaxCmpLines),
     runErr : CmdErrs \cup {DeadlineExceeded}]

CallParseTestResults ==
    /\ fnRet = Nil
    /\ fnArgs.fn = "parseTestResults"
    /\ fnRet' = Some(parseTestResults(fnArgs.output, fnArgs.runErr))
    /\ UNCHANGED <<fnArgs, adapterVars, runnerVars, arbVars, evalVars,
                 driverVars, registryVars, watchdogVars, worktreeVars, collectVars>>

CallTestRunnerRun ==
    /\ fnRet = Nil
    /\ fnArgs.fn = "Run"
    /\ fnRet' = Some(TestRunnerRun(fnArgs.cmdEmpty, fnArgs.output, fnArgs.cmdErr,
                                   fnArgs.ctxErr))
    /\ UNCHANGED <<fnArgs, adapterVars, runnerVars, arbVars, evalVars,
                 driverVars, registryVars, watchdogVars, worktreeVars, collectVars>>

(***************************************************************************)
(* Specifications.                                                         *)
(***************************************************************************)
AdapterIdle ==
    /\ AdapterInit
    /\ alphabet = {PlainLine}
    /\ budget = ChanCap + MaxExtra

RunnerIdle ==
    /\ testCommandEmpty = FALSE
    /\ baseTestResults = Nil
    /\ baselineCalled = FALSE

ArbIdle ==
    /\ patches = <<>>
    /\ spc = "new"
    /\ evalCount = <<>>
    /\ runCount = <<>>
    /\ cstate = <<>>
    /\ results = <<>>
    /\ runOf = [a \in DOMAIN patches |-> Nil]
    /\ selectRet = NoRet
    /\ invocation = 0
    /\ prevRet = NoRet

EvalIdle ==
    /\ evalDiff = <<>>
    /\ evalRet = Nil

FnIdle ==
    /\ fnArgs = [fn |-> "none"]
    /\ fnRet = Nil

DriverIdle ==
    /\ runPc = "new"
    /\ wmCreated = FALSE
    /\ cleanupRan = FALSE
    /\ driverCtxDone = FALSE
    /\ createdWorktrees = <<>>
    /\ removedWorktrees = {}
    /\ taskPc = <<>>
    /\ taskRead = <<>>
    /\ taskPath = <<>>
    /\ taskDiffErr = <<>>
    /\ agentProc = <<>>
    /\ chSent = <<>>
    /\ chClosed = <<>>
    /\ collected = <<>>
    /\ tracked = <<>>
    /\ patchDetails = <<>>
    /\ storeCount = <<>>
    /\ lateWrite = FALSE

RegistryIdle ==
    /\ factories = {}
    /\ rwReaders = 0
    /\ rwWriter = Nil
    /\ rwPending = {}
    /\ regOp = <<>>
    /\ regPc = <<>>
    /\ regLeft = <<>>

WatchdogIdle ==
    /\ counters = <<>>
    /\ warningsSent = {}
    /\ warnedCount = <<>>
    /\ terminateSent = {}
    /\ watchdogOps = 0

\* everything but the adapter, the runner and the arbitrator is idle
\* a path that no CreateWorktree call of this manager returns
ForeignPath == 0

\* no call made yet
NoCall == [op |-> "none", path |-> ForeignPath, err |-> "", before |-> <<>>,
           failing |-> {}]

WorktreeIdle ==
    /\ wtOnDisk = {}
    /\ wtLast = NoCall
    /\ wtOps = 0

CollectIdle == closedFirst = FALSE

OthersIdle ==
    DriverIdle /\ RegistryIdle /\ WatchdogIdle /\ WorktreeIdle /\ CollectIdle

\* one CLI adapter with its subprocess, its reader and the driver's collector
Init == AdapterInit /\ RunnerIdle /\ ArbIdle /\ EvalIdle /\ FnIdle /\ OthersIdle

Next == AdapterNext

Spec == Init /\ [][Next]_vars

\* the same, with the scheduling the Go runtime and the operating system
\* give: a goroutine that can run does run, and a process whose context is
\* done is killed.  Nothing makes the process exit by itself, the context be
\* cancelled or Shutdown be called.
Fairness ==
    /\ WF_vars(ReaderScan)
    /\ WF_vars(ReaderEOF)
    /\ WF_vars(ReaderSend)
    /\ WF_vars(ReaderWait)
    /\ WF_vars(ReaderClose)
    /\ WF_vars(CtxKill)
    /\ WF_vars(CollectRecv \/ CollectClosed \/ CollectCtxDone)

FairSpec == Init /\ [][Next]_vars /\ Fairness

\* the arbitrator selecting among the candidates of a map
InitArb ==
    /\ AdapterIdle /\ EvalIdle /\ FnIdle /\ OthersIdle
    /\ testCommandEmpty \in BOOLEAN
    /\ baseTestResults = Nil
    /\ baselineCalled = FALSE
    /\ patches \in UNION {[S -> ArbDiffs] : S \in SUBSET AgentIDs}
    /\ spc = "new"
    /\ evalCount = [a \in DOMAIN patches |-> 0]
    /\ runCount = [a \in DOMAIN patches |-> 0]
    /\ cstate = [a \in DOMAIN patches |-> "received"]
    /\ results = <<>>
    /\ runOf = [a \in DOMAIN patches |-> Nil]
    /\ selectRet = NoRet
    /\ invocation = 0
    /\ prevRet = NoRet

NextArb ==
    \/ SetBaselineTestResults
    \/ SelectBegin
    \/ \E a \in DOMAIN patches : SelectEval(a)
    \/ SelectFinish

SpecArb == InitArb /\ [][NextArb]_vars

\* the same, with a second SelectBestPatch call on the same map
NextArbTwice ==
    \/ SetBaselineTestResults
    \/ SelectBegin
    \/ \E a \in DOMAIN patches : SelectEval(a)
    \/ SelectFinish
    \/ SelectBeginAgain

SpecArbTwice == InitArb /\ [][NextArbTwice]_vars

\* one EvaluatePatch call on any diff
InitEval ==
    /\ AdapterIdle /\ ArbIdle /\ FnIdle /\ OthersIdle
    /\ testCommandEmpty \in BOOLEAN
    /\ baseTestResults = Nil
    /\ baselineCalled = FALSE
    /\ evalDiff \in AllDiffs
    /\ evalRet = Nil

NextEval ==
    \/ SetBaselineTestResults
    \/ EvaluateOnce

SpecEval == InitEval /\ [][NextEval]_vars

\* one calculateScore call
InitScore ==
    /\ AdapterIdle /\ RunnerIdle /\ ArbIdle /\ EvalIdle /\ OthersIdle
    /\ fnArgs \in ScoreInputs
    /\ fnRet = Nil

SpecScore == InitScore /\ [][CallCalculateScore]_vars

\* one CompareResults call
InitCompare ==
    /\ AdapterIdle /\ RunnerIdle /\ ArbIdle /\ EvalIdle /\ OthersIdle
    /\ fnArgs \in CompareInputs
    /\ fnRet = Nil

SpecCompare == InitCompare /\ [][CallCompareResults]_vars

\* one parseTestResults call
InitParse ==
    /\ AdapterIdle /\ RunnerIdle /\ ArbIdle /\ EvalIdle /\ OthersIdle
    /\ fnArgs \in ParseInputs
    /\ fnRet = Nil

SpecParse == InitParse /\ [][CallParseTestResults]_vars

\* one TestRunner.Run call
InitRun ==
    /\ AdapterIdle /\ RunnerIdle /\ ArbIdle /\ EvalIdle /\ OthersIdle
    /\ fnArgs \in RunInputs
    /\ fnRet = Nil

SpecRun == InitRun /\ [][CallTestRunnerRun]_vars

\* one run of the driver over the agents of a configuration
InitDriver ==
    /\ AdapterIdle /\ RunnerIdle /\ ArbIdle /\ EvalIdle /\ FnIdle
    /\ RegistryIdle /\ WatchdogIdle /\ WorktreeIdle /\ CollectIdle
    /\ runPc = "new"
    /\ wmCreated = FALSE
    /\ cleanupRan = FALSE
    /\ driverCtxDone = FALSE
    /\ createdWorktrees = <<>>
    /\ removedWorktrees = {}
    /\ \E n \in 0..MaxDriverAgents : taskPc = [a \in 1..n |-> "idle"]
    /\ taskRead = [a \in DriverAgents |-> <<>>]
    /\ taskPath = [a \in DriverAgents |-> Nil]
    /\ taskDiffErr = [a \in DriverAgents |-> ""]
    /\ agentProc = [a \in DriverAgents |-> "none"]
    /\ chSent = [a \in DriverAgents |-> 0]
    /\ chClosed = [a \in DriverAgents |-> FALSE]
    /\ collected = [a \in DriverAgents |-> 0]
    /\ tracked = [a \in DriverAgents |-> 0]
    /\ patchDetails = [a \in DriverAgents |-> Nil]
    /\ storeCount = [a \in DriverAgents |-> 0]
    /\ lateWrite = FALSE

TaskNext(a) ==
    \/ CreateWorktreeRead(a)
    \/ CreateWorktreeWrite(a)
    \/ TaskStart(a)
    \/ TaskCollectRecv(a)
    \/ TaskShutdown(a)
    \/ TaskGetDiff(a)
    \/ TaskStore(a)

RunNext ==
    \/ RunNewManager
    \/ RunSetup
    \/ RunAgentsReturn
    \/ RunSelect
    \/ RunCleanup

NextDriver ==
    \/ RunNext
    \/ \E a \in DriverAgents : TaskNext(a)
    \/ \E a \in DriverAgents : AgentEmit(a)
    \/ \E a \in DriverAgents : AgentExit(a)
    \/ \E a \in DriverAgents : AgentCtxKill(a)
    \/ Interrupt

SpecDriver == InitDriver /\ [][NextDriver]_vars

\* the same, with the scheduling the Go runtime and the operating system
\* give: run and every task go on while they can, git commands return, and
\* a process whose context is done is killed.  Nothing makes an agent's
\* process write or exit by itself, and nothing makes an interrupt arrive.
FairnessDriver ==
    /\ WF_vars(RunNext)
    /\ \A a \in 1..MaxDriverAgents : WF_vars(a \in DriverAgents /\ TaskNext(a))
    /\ \A a \in 1..MaxDriverAgents : WF_vars(a \in DriverAgents /\ AgentCtxKill(a))

FairSpecDriver == InitDriver /\ [][NextDriver]_vars /\ FairnessDriver

\* tasks calling one registry concurrently
InitRegistry ==
    /\ AdapterIdle /\ RunnerIdle /\ ArbIdle /\ EvalIdle /\ FnIdle
    /\ DriverIdle /\ WatchdogIdle /\ WorktreeIdle /\ CollectIdle
    /\ factories = {}
    /\ rwReaders = 0
    /\ rwWriter = Nil
    /\ rwPending = {}
    /\ regOp = [t \in 1..MaxThreads |-> "none"]
    /\ regPc = [t \in 1..MaxThreads |-> "idle"]
    /\ regLeft = [t \in 1..MaxThreads |-> 0]

NextRegistry ==
    \/ \E t \in DOMAIN regPc : RegCall(t)
    \/ \E t \in DOMAIN regPc : RegStep(t)

SpecRegistry == InitRegistry /\ [][NextRegistry]_vars

(***************************************************************************)
(* The watchdog: a map from agent id to its TokenCounter and the set of    *)
(* agents already warned, both under one lock, so that every operation is  *)
(* one step.  Time is counted in intervals.                                *)
(***************************************************************************)
otherThanWatchdog == <<adapterVars, runnerVars, arbVars, evalVars, fnVars,
                       driverVars, registryVars, worktreeVars, collectVars>>

\* ResourceLimits: the tokens and the intervals an agent may use
MaxTokens == 5
MaxDuration == 5

WatchedAgents == 1..MaxWatched

\* the token counts an extractor may read from one event
TokenCounts == 0..MaxTokenStep

NewTokenCounter == [tokens |-> 0, elapsed |-> 0]

\* the agent has reached its limit of tokens or of time
OverLimit(c) == c.tokens >= MaxTokens \/ c.elapsed >= MaxDuration

\* the agent has crossed 80% of a limit
OverWarningThreshold(c) ==
    10 * c.tokens >= 8 * MaxTokens \/ 10 * c.elapsed >= 8 * MaxDuration

\* the counters with agent a monitored
Monitored(a) ==
    IF a \in DOMAIN counters
    THEN counters
    ELSE [b \in DOMAIN counters \cup {a} |->
             IF b = a THEN NewTokenCounter ELSE counters[b]]

CheckLimits == {a \in DOMAIN counters : OverLimit(counters[a])}

\* the agents GetWarningEvents makes a warning event for
ToWarn ==
    {a \in DOMAIN counters :
        a \notin warningsSent /\ OverWarningThreshold(counters[a])}

MonitorAgent(a) ==
    /\ watchdogOps < MaxWatchdogOps
    /\ counters' = Monitored(a)
    /\ watchdogOps' = watchdogOps + 1
    /\ UNCHANGED <<warningsSent, warnedCount, terminateSent, otherThanWatchdog>>

\* removes the agent's entry and its warning marker
StopMonitoring(a) ==
    /\ watchdogOps < MaxWatchdogOps
    /\ counters' = [b \in DOMAIN counters \ {a} |-> counters[b]]
    /\ warningsSent' = warningsSent \ {a}
    /\ watchdogOps' = watchdogOps + 1
    /\ UNCHANGED <<warnedCount, terminateSent, otherThanWatchdog>>

\* an event of agent a from which the extractor reads n tokens
TrackEvent(a, n) ==
    /\ watchdogOps < MaxWatchdogOps
    /\ counters' = [Monitored(a) EXCEPT ![a].tokens = @ + n]
    /\ watchdogOps' = watchdogOps + 1
    /\ UNCHANGED <<warningsSent, warnedCount, terminateSent, otherThanWatchdog>>

CallCheckLimits ==
    /\ watchdogOps < MaxWatchdogOps
    /\ watchdogOps' = watchdogOps + 1
    /\ UNCHANGED <<counters, warningsSent, warnedCount, terminateSent,
                   otherThanWatchdog>>

\* one warning event for each agent past the threshold and not yet warned
GetWarningEvents ==
    /\ watchdogOps < MaxWatchdogOps
    /\ warningsSent' = warningsSent \cup ToWarn
    /\ warnedCount' = [a \in DOMAIN warnedCount |->
                          IF a \in ToWarn THEN warnedCount[a] + 1
                                          ELSE warnedCount[a]]
    /\ watchdogOps' = watchdogOps + 1
    /\ UNCHANGED <<counters, terminateSent, otherThanWatchdog>>

\* one interval of RunPeriodicCheck: the warnings go to the warning channel,
\* the agents over a limit to the terminate channel
RunPeriodicCheck ==
    /\ watchdogOps < MaxWatchdogOps
    /\ warningsSent' = warningsSent \cup ToWarn
    /\ warnedCount' = [a \in DOMAIN warnedCount |->
                          IF a \in ToWarn THEN warnedCount[a] + 1
                                          ELSE warnedCount[a]]
    /\ terminateSent' = terminateSent \cup CheckLimits
    /\ watchdogOps' = watchdogOps + 1
    /\ UNCHANGED <<counters, otherThanWatchdog>>

\* an interval of time passes for every monitored agent
TimePasses ==
    /\ \E a \in DOMAIN counters : counters[a].elapsed < MaxDuration
    /\ counters' = [a \in DOMAIN counters |->
                       IF counters[a].elapsed < MaxDuration
                       THEN [counters[a] EXCEPT !.elapsed = @ + 1]
                       ELSE counters[a]]
    /\ UNCHANGED <<warningsSent, warnedCount, terminateSent, watchdogOps,
                   otherThanWatchdog>>

\* NewWatchdog: nothing monitored, nobody warned
InitWatchdog ==
    /\ AdapterIdle /\ RunnerIdle /\ ArbIdle /\ EvalIdle /\ FnIdle
    /\ DriverIdle /\ RegistryIdle /\ WorktreeIdle /\ CollectIdle
    /\ counters = <<>>
    /\ warningsSent = {}
    /\ warnedCount = [a \in WatchedAgents |-> 0]
    /\ terminateSent = {}
    /\ watchdogOps = 0

NextWatchdog ==
    \/ \E a \in WatchedAgents : MonitorAgent(a)
    \/ \E a \in WatchedAgents : StopMonitoring(a)
    \/ \E a \in WatchedAgents, n \in TokenCounts : TrackEvent(a, n)
    \/ CallCheckLimits
    \/ GetWarningEvents
    \/ RunPeriodicCheck
    \/ TimePasses

SpecWatchdog == InitWatchdog /\ [][NextWatchdog]_vars

(***************************************************************************)
(* The worktree manager, called by one caller at a time.  A path is the    *)
(* agent id it was made for: randomString returns the same string on every *)
(* call, so the path is a function of the agent id.                        *)
(***************************************************************************)
otherDriverVars == <<runPc, wmCreated, cleanupRan, driverCtxDone, removedWorktrees, taskPc,
                     taskRead, taskPath, taskDiffErr, agentProc, chSent, chClosed,
                     collected, tracked, patchDetails, storeCount, lateWrite>>

otherThanWorktree == <<adapterVars, runnerVars, arbVars, evalVars, fnVars, otherDriverVars,
                       registryVars, watchdogVars, collectVars>>

\* the paths CreateWorktree makes for the agents
AgentPaths == 1..MaxDriverAgents

WorktreePaths == AgentPaths \cup {ForeignPath}

InvalidWorktree == "invalid worktree path"

\* the slice without the first element equal to p
RECURSIVE RemoveFirst(_, _)
RemoveFirst(slice, p) ==
    IF slice = <<>> THEN <<>>
    ELSE IF Head(slice) = p THEN Tail(slice)
         ELSE <<Head(slice)>> \o RemoveFirst(Tail(slice), p)

\* isValidWorktree that only asks git
isValidWorktreeOnDiskOnly(slice, disk, p, gitOK) ==
    p \in disk /\ gitOK

\* isValidWorktree: the path is in the list and git status succeeds in it
isValidWorktree(slice, disk, p, gitOK) ==
    p \in Range(slice) /\ p \in disk /\ gitOK

\* CreateWorktree(agentID, ref): git worktree add fails when the path exists
\* or the ref does not, or for a reason of its own
CreateWorktree(a) ==
    /\ wtOps < MaxWorktreeOps
    /\ wtOps' = wtOps + 1
    /\ \E gitOK \in BOOLEAN :
          IF a \notin wtOnDisk /\ gitOK
          THEN /\ wtOnDisk' = wtOnDisk \cup {a}
               /\ createdWorktrees' = Append(createdWorktrees, a)
               /\ wtLast' = [op |-> "CreateWorktree", path |-> a, err |-> "",
                             before |-> createdWorktrees, failing |-> {}]
          ELSE /\ wtLast' = [op |-> "CreateWorktree", path |-> a,
                             err |-> "failed to create worktree",
                             before |-> createdWorktrees, failing |-> {}]
               /\ UNCHANGED <<wtOnDisk, createdWorktrees>>
    /\ UNCHANGED otherThanWorktree

\* GetDiff(worktreePath)
GetDiff(p) ==
    /\ wtOps < MaxWorktreeOps
    /\ wtOps' = wtOps + 1
    /\ \E statusOK \in BOOLEAN, diffOK \in BOOLEAN :
          wtLast' = [op |-> "GetDiff", path |-> p,
                     err |-> IF ~isValidWorktree(createdWorktrees, wtOnDisk, p, statusOK)
                             THEN InvalidWorktree
                             ELSE IF diffOK THEN "" ELSE "failed to get diff",
                     before |-> createdWorktrees, failing |-> {}]
    /\ UNCHANGED <<wtOnDisk, createdWorktrees>>
    /\ UNCHANGED otherThanWorktree

\* what one RemoveWorktree(p) call does to the list and the disk, and the
\* error it returns
RemoveOne(slice, disk, p, statusOK, removeOK) ==
    IF ~isValidWorktree(slice, disk, p, statusOK)
    THEN [slice |-> slice, disk |-> disk, err |-> InvalidWorktree]
    ELSE IF ~removeOK
    THEN [slice |-> slice, disk |-> disk, err |-> "failed to remove worktree"]
    ELSE [slice |-> RemoveFirst(slice, p), disk |-> disk \ {p}, err |-> ""]

\* RemoveWorktree(worktreePath)
RemoveWorktree(p) ==
    /\ wtOps < MaxWorktreeOps
    /\ wtOps' = wtOps + 1
    /\ \E statusOK \in BOOLEAN, removeOK \in BOOLEAN :
          LET r == RemoveOne(createdWorktrees, wtOnDisk, p, statusOK, removeOK) IN
          /\ createdWorktrees' = r.slice
          /\ wtOnDisk' = r.disk
          /\ wtLast' = [op |-> "RemoveWorktree", path |-> p, err |-> r.err,
                        before |-> createdWorktrees, failing |-> {}]
    /\ UNCHANGED otherThanWorktree

\* Cleanup's loop giving up at the first removal that fails
RECURSIVE CleanupLoopUntilError(_, _, _, _, _)
CleanupLoopUntilError(worktrees, slice, disk, failing, errors) ==
    IF worktrees = <<>> \/ errors > 0
    THEN [slice |-> slice, disk |-> disk, errors |-> errors]
    ELSE LET r == RemoveOne(slice, disk, Head(worktrees), TRUE,
                            Head(worktrees) \notin failing)
         IN CleanupLoopUntilError(Tail(worktrees), r.slice, r.disk, failing,
                                  IF r.err = "" THEN errors ELSE errors + 1)

\* Cleanup's loop over the copy of the list: RemoveWorktree on each path, the
\* errors collected; git fails on the paths in failing
RECURSIVE CleanupLoop(_, _, _, _, _)
CleanupLoop(worktrees, slice, disk, failing, errors) ==
    IF worktrees = <<>>
    THEN [slice |-> slice, disk |-> disk, errors |-> errors]
    ELSE LET r == RemoveOne(slice, disk, Head(worktrees), TRUE,
                            Head(worktrees) \notin failing)
         IN CleanupLoop(Tail(worktrees), r.slice, r.disk, failing,
                        IF r.err = "" THEN errors ELSE errors + 1)

\* Cleanup()
Cleanup ==
    /\ wtOps < MaxWorktreeOps
    /\ wtOps' = wtOps + 1
    /\ \E failing \in SUBSET Range(createdWorktrees) :
          LET r == CleanupLoop(createdWorktrees, createdWorktrees, wtOnDisk, failing, 0) IN
          /\ createdWorktrees' = r.slice
          /\ wtOnDisk' = r.disk
          /\ wtLast' = [op |-> "Cleanup", path |-> ForeignPath,
                        err |-> IF r.errors > 0
                                THEN "failed to clean up all worktrees" ELSE "",
                        before |-> createdWorktrees, failing |-> failing]
    /\ UNCHANGED otherThanWorktree

\* NewWorktreeManager: nothing created; the foreign path may be a git
\* worktree on disk (the repository itself is one) or not
InitWorktree ==
    /\ AdapterIdle /\ RunnerIdle /\ ArbIdle /\ EvalIdle /\ FnIdle
    /\ DriverIdle /\ RegistryIdle /\ WatchdogIdle /\ CollectIdle
    /\ wtOnDisk \in {{}, {ForeignPath}}
    /\ wtLast = NoCall
    /\ wtOps = 0

NextWorktree ==
    \/ \E a \in AgentPaths : CreateWorktree(a)
    \/ \E p \in WorktreePaths : GetDiff(p)
    \/ \E p \in WorktreePaths : RemoveWorktree(p)
    \/ Cleanup

SpecWorktree == InitWorktree /\ [][NextWorktree]_vars

(***************************************************************************)
(* The configuration, the factories registered by registerAdapters, and    *)
(* the registry's Create and CreateFromConfig as functions of the          *)
(* registry's map.  A factory is named by the tag registerAdapters puts it *)
(* under.  Of an agent's options only the command and the presence of a    *)
(* binary_path are kept.                                                   *)
(***************************************************************************)
Families == {"amp", "codex", "claude"}

AgentIDIn == {"", "a", "codex"}
KindTags == {"", "cli", "http", "amp", "codex", "claude"}
CommandIn == {"", "tool", "amp"}

\* adapter.Config, and core.AgentConfig
AdapterConfigs ==
    [ID : AgentIDIn, Type : KindTags, command : CommandIn, binary_path : BOOLEAN]

\* the agents of a configuration file
ConfigAgents ==
    [ID : AgentIDIn, Type : {"", "cli", "http", "codex"}, command : {"", "tool"},
     binary_path : {FALSE}]

NoFactory == "no adapter factory registered for type"

NewAdapter(id, command) == [err |-> "", adapter |-> Some([id |-> id, command |-> command])]

NoAdapter(err) == [err |-> err, adapter |-> Nil]

\* amp.New, codex.New, claude.New: a CLI adapter for the binary; amp.New
\* looks the binary up with which when no binary_path is given
FamilyNew(family, id, binarySet, whichOK) ==
    IF family = "amp" /\ ~binarySet /\ ~whichOK
    THEN NoAdapter("binary not found")
    ELSE NewAdapter(id, IF binarySet THEN "binary_path" ELSE family)

\* amp.Factory(), codex.Factory(), claude.Factory()
FamilyFactory(family, config, whichOK) ==
    IF config.Type # "cli"
    THEN NoAdapter("requires cli adapter type")
    ELSE FamilyNew(family, config.ID, config.binary_path, whichOK)

\* the factory registerAdapters registers under "cli"; findBinary always
\* gives a binary_path
CliFactory(config) ==
    IF config.ID = "amp" \/ config.command = "amp"
    THEN FamilyNew("amp", config.ID, TRUE, TRUE)
    ELSE IF config.ID = "codex" \/ config.command = "codex"
    THEN FamilyNew("codex", config.ID, TRUE, TRUE)
    ELSE IF config.ID = "claude" \/ config.command = "claude"
    THEN FamilyNew("claude", config.ID, TRUE, TRUE)
    ELSE IF config.command = ""
    THEN NoAdapter("missing command for generic CLI adapter")
    ELSE NewAdapter(config.ID, config.command)

CallFactory(factory, config, whichOK) ==
    IF factory = "cli" THEN CliFactory(config)
    ELSE FamilyFactory(factory, config, whichOK)

\* the registry's map after registerAdapters
registerAdapters == [t \in {"cli"} \cup Families |-> t]

\* the maps of the registries called: empty, "cli" only, registerAdapters'
Registries == {[t \in S |-> t] : S \in {{}, {"cli"}, {"cli"} \cup Families}}

\* Registry.Create(config)
Create(registered, config, whichOK) ==
    IF config.Type \notin DOMAIN registered
    THEN NoAdapter(NoFactory)
    ELSE CallFactory(registered[config.Type], config, whichOK)

\* the map with adapters[id] = adapter
Put(adapters, id, adapter) ==
    [i \in DOMAIN adapters \cup {id} |-> IF i = id THEN adapter ELSE adapters[i]]

\* CreateFromConfig's loop leaving out the agents whose adapter cannot be made
RECURSIVE CreateFromConfigSkipFailed(_, _, _, _)
CreateFromConfigSkipFailed(registered, agents, whichOK, adapters) ==
    IF agents = <<>>
    THEN [err |-> "", adapters |-> Some(adapters)]
    ELSE LET r == Create(registered, Head(agents), whichOK) IN
         CreateFromConfigSkipFailed(registered, Tail(agents), whichOK,
                                    IF r.err # "" THEN adapters
                                    ELSE Put(adapters, Head(agents).ID, r.adapter[1]))

\* Registry.CreateFromConfig(cfg): the loop over cfg.Agents from the map
\* built so far
RECURSIVE CreateFromConfig(_, _, _, _)
CreateFromConfig(registered, agents, whichOK, adapters) ==
    IF agents = <<>>
    THEN [err |-> "", adapters |-> Some(adapters)]
    ELSE LET r == Create(registered, Head(agents), whichOK) IN
         IF r.err # ""
         THEN [err |-> r.err, adapters |-> Nil]
         ELSE CreateFromConfig(registered, Tail(agents), whichOK,
                               Put(adapters, Head(agents).ID, r.adapter[1]))

\* validateConfig's loop over cfg.Agents
RECURSIVE ValidateAgents(_)
ValidateAgents(agents) ==
    IF agents = <<>> THEN ""
    ELSE IF Head(agents).ID = "" THEN "agent is missing ID"
    ELSE IF Head(agents).Type = "" THEN "agent is missing type"
    ELSE IF Head(agents).Type # "http" /\ Head(agents).Type # "cli"
    THEN "agent has invalid type"
    ELSE ValidateAgents(Tail(agents))

\* validateConfig(cfg): the error, "" for nil (the default it gives
\* TimeoutSeconds is left out)
validateConfig(cfg) ==
    IF cfg.WorkingDir = "" THEN "working_dir is required"
    ELSE IF Len(cfg.Agents) = 0 THEN "at least one agent must be configured"
    ELSE ValidateAgents(cfg.Agents)

Configs == [WorkingDir : {"", "dir"}, Agents : SeqsUpTo(ConfigAgents, MaxConfigAgents)]

CreateInputs ==
    [fn : {"Create"}, factories : Registries, config : AdapterConfigs, whichOK : BOOLEAN]

LoadInputs == [fn : {"Load"}, cfg : Configs]

CallCreate ==
    /\ fnRet = Nil
    /\ fnArgs.fn = "Create"
    /\ fnRet' = Some(Create(fnArgs.factories, fnArgs.config, fnArgs.whichOK))
    /\ UNCHANGED <<fnArgs, adapterVars, runnerVars, arbVars, evalVars,
                 driverVars, registryVars, watchdogVars, worktreeVars, collectVars>>

\* validateConfig on the loaded configuration, and the adapters run has
\* CreateFromConfig make from it with the registry of registerAdapters
CallLoad ==
    /\ fnRet = Nil
    /\ fnArgs.fn = "Load"
    /\ fnRet' = Some([valid |-> validateConfig(fnArgs.cfg),
                      created |-> CreateFromConfig(registerAdapters, fnArgs.cfg.Agents,
                                                   TRUE, <<>>)])
    /\ UNCHANGED <<fnArgs, adapterVars, runnerVars, arbVars, evalVars,
                 driverVars, registryVars, watchdogVars, worktreeVars, collectVars>>

InitConfig ==
    /\ AdapterIdle /\ RunnerIdle /\ ArbIdle /\ EvalIdle /\ OthersIdle
    /\ fnArgs \in CreateInputs \cup LoadInputs
    /\ fnRet = Nil

NextConfig == CallCreate \/ CallLoad

SpecConfig == InitConfig /\ [][NextConfig]_vars

(***************************************************************************)
(* The argument vector of the agent process.                               *)
(***************************************************************************)
\* the arguments an adapter may be configured with, the worktree paths and
\* the prompts of a Start call
ArgWords == {"-w", "--worktree", "--workdir", "-v", "/wt"}
WorktreePathIn == {"/wt", "-w"}
PromptIn == {"fix", "-w", ""}

\* the flags Start takes for a working directory already given
WorkingDirFlags == {"-w", "--worktree", "--workdir"}

\* Start appending the working directory whatever the configured arguments are
StartArgsAlwaysWorkdir(args, worktreePath, prompt) ==
    [argv |-> args \o <<"-w", worktreePath>> \o <<prompt>>, args |-> args]

\* the part of Start that prepares the command: workingArgs is a copy of
\* a.args, "-w" and the path are appended unless one of the flags is among
\* the arguments, then the prompt; argv is what exec.CommandContext is given
\* after the command, args is a.args when Start returns
StartArgs(args, worktreePath, prompt) ==
    LET workingArgs == args
        hasWorkingDir == \E i \in 1..Len(workingArgs) : workingArgs[i] \in WorkingDirFlags
        withDir == IF ~hasWorkingDir
                   THEN workingArgs \o <<"-w", worktreePath>>
                   ELSE workingArgs
    IN [argv |-> Append(withDir, prompt), args |-> args]

StartInputs ==
    [fn : {"Start"}, args : SeqsUpTo(ArgWords, MaxArgs),
     worktreePath : WorktreePathIn, prompt : PromptIn]

CallStartArgs ==
    /\ fnRet = Nil
    /\ fnArgs.fn = "Start"
    /\ fnRet' = Some(StartArgs(fnArgs.args, fnArgs.worktreePath, fnArgs.prompt))
    /\ UNCHANGED <<fnArgs, adapterVars, runnerVars, arbVars, evalVars,
                 driverVars, registryVars, watchdogVars, worktreeVars, collectVars>>

\* one Start call preparing its command
InitStart ==
    /\ AdapterIdle /\ RunnerIdle /\ ArbIdle /\ EvalIdle /\ OthersIdle
    /\ fnArgs \in StartInputs
    /\ fnRet = Nil

SpecStart == InitStart /\ [][CallStartArgs]_vars

(***************************************************************************)
(* NormalizeDiff.  A text is its lines and whether the last line lacks its *)
(* newline; a line is the kind of its content and the carriage returns it  *)
(* ends with.  The expressions for timestamp and index lines are anchored  *)
(* at the start of the line only, the one for file headers at both ends.   *)
(***************************************************************************)
\* the kinds of line: a file header naming one path twice or two paths, an
\* index line, a timestamp line, a hunk header, an added, a removed, a
\* context and an empty line, and a line longer than the scanner's buffer
LineKinds == {"header", "rename", "index", "timestamp", "hunk", "added", "removed",
              "context", "empty", "toolong"}

NormLines == [kind : LineKinds, cr : 0..MaxCR]

\* the strings: an unterminated last line has at least one character
Texts ==
    {t \in [lines : SeqsUpTo(NormLines, MaxNormLines), open : BOOLEAN] :
        t.open => /\ t.lines # <<>>
                  /\ LET l == t.lines[Len(t.lines)] IN l.kind # "empty" \/ l.cr > 0}

\* bufio.ScanLines drops the newline and one carriage return before it
DropCR(line) == [line EXCEPT !.cr = IF @ > 0 THEN @ - 1 ELSE 0]

\* timestampRegex.MatchString(line) || indexLineRegex.MatchString(line)
Skipped(line) == line.kind \in {"timestamp", "index"}

\* the loop of NormalizeDiff over the tokens of the scanner: Scan ends at a
\* line longer than its buffer; a matching file header is written again as
\* it was, every other kept line as it is, each followed by a newline
RECURSIVE NormalizeLines(_)
NormalizeLines(lines) ==
    IF lines = <<>> \/ lines[1].kind = "toolong" THEN <<>>
    ELSE LET line == DropCR(lines[1]) IN
         IF Skipped(line)
         THEN NormalizeLines(Tail(lines))
         ELSE <<line>> \o NormalizeLines(Tail(lines))

\* NormalizeDiff(diff)
NormalizeDiff(diff) == [lines |-> NormalizeLines(diff.lines), open |-> FALSE]

NormalizeInputs == [fn : {"NormalizeDiff"}, diff : Texts]

\* NormalizeDiff is called on a diff
CallNormalizeDiff ==
    /\ fnRet = Nil
    /\ fnArgs.fn = "NormalizeDiff"
    /\ fnRet' = <<NormalizeDiff(fnArgs.diff)>>
    /\ UNCHANGED <<fnArgs, adapterVars, runnerVars, arbVars, evalVars,
                 driverVars, registryVars, watchdogVars, worktreeVars, collectVars>>

\* NormalizeDiff is called on what it returned
CallNormalizeDiffAgain ==
    /\ Len(fnRet) = 1
    /\ fnArgs.fn = "NormalizeDiff"
    /\ fnRet' = Append(fnRet, NormalizeDiff(fnRet[1]))
    /\ UNCHANGED <<fnArgs, adapterVars, runnerVars, arbVars, evalVars,
                 driverVars, registryVars, watchdogVars, worktreeVars, collectVars>>

InitNormalize ==
    /\ AdapterIdle /\ RunnerIdle /\ ArbIdle /\ EvalIdle /\ OthersIdle
    /\ fnArgs \in NormalizeInputs
    /\ fnRet = Nil

NextNormalize == CallNormalizeDiff \/ CallNormalizeDiffAgain

SpecNormalize == InitNormalize /\ [][NextNormalize]_vars

(***************************************************************************)
(* collectEvents on a channel that a sender of its own fills and closes,   *)
(* as in TestCollectEvents and TestCollectEventsWithCancel.                *)
(***************************************************************************)
\* protocol.NewEvent(type, agentID, sequenceNum)
NewEvent(type, agentID, sequenceNum) ==
    [type |-> type, agent |-> agentID, seq |-> sequenceNum, code |-> ""]

\* the events among the values sent, in order
RECURSIVE NonNil(_)
NonNil(s) ==
    IF s = <<>> THEN <<>>
    ELSE IF Head(s) = NoEvent THEN NonNil(Tail(s))
         ELSE <<Head(s)>> \o NonNil(Tail(s))

\* eventCh <- event, or eventCh <- nil: a send on the open channel while its
\* buffer has room; the events are numbered as they are sent
ChanSend(isNil) ==
    /\ closeCount = 0
    /\ Len(emitted) < MaxSent
    /\ Len(eventCh) < ChanCap
    /\ LET e == IF isNil THEN NoEvent
                ELSE NewEvent("agent", AdapterID, Len(emitted) + 1)
       IN /\ eventCh' = Append(eventCh, e)
          /\ emitted' = Append(emitted, e)
    /\ UNCHANGED <<cmdSet, proc, exitOK, alphabet, budget, startRet, chanReturned, rpc,
                   seq, pending, closeCount, sendOnClosed, ctxDone, cpc, events,
                   shutdownCalls, shutdownErrs, scanned>>
    /\ UNCHANGED otherThanAdapter

\* close(eventCh)
ChanClose ==
    /\ closeCount = 0
    /\ closeCount' = 1
    /\ closedFirst' = ~ctxDone
    /\ UNCHANGED <<cmdSet, proc, exitOK, alphabet, budget, startRet, chanReturned, rpc,
                   seq, pending, eventCh, sendOnClosed, emitted, ctxDone, cpc, events,
                   shutdownCalls, shutdownErrs, scanned>>
    /\ UNCHANGED <<runnerVars, arbVars, evalVars, fnVars, driverVars, registryVars,
                   watchdogVars, worktreeVars>>

\* collectEvents(ctx, agentID, eventCh) is called
CollectCall ==
    /\ cpc = "idle"
    /\ cpc' = "collect"
    /\ UNCHANGED <<cmdSet, proc, exitOK, alphabet, budget, startRet, chanReturned, rpc,
                   seq, pending, eventCh, closeCount, sendOnClosed, emitted, ctxDone,
                   events, shutdownCalls, shutdownErrs, scanned>>
    /\ UNCHANGED otherThanAdapter

InitCollect ==
    /\ AdapterIdle /\ RunnerIdle /\ ArbIdle /\ EvalIdle /\ FnIdle /\ OthersIdle

NextCollect ==
    \/ \E isNil \in BOOLEAN : ChanSend(isNil)
    \/ ChanClose
    \/ CtxCancel
    \/ CollectCall
    \/ CollectRecv
    \/ CollectClosed
    \/ CollectCtxDone

SpecCollect == InitCollect /\ [][NextCollect]_vars

(***************************************************************************)
(* run as the arbitrator sees it: the baseline tests, runAgents as one     *)
(* step that hands over the candidate map, and SelectBestPatch with its    *)
(* EvaluatePatch calls.  The deferred Cleanup is part of run's return.     *)
(***************************************************************************)
\* run going on to the adapters whatever SetBaselineTestResults returned
RunToBaselineIgnoringError ==
    /\ runPc = "new"
    /\ \/ /\ runPc' = "returned"
          /\ UNCHANGED <<baseTestResults, baselineCalled>>
       \/ /\ baselineCalled' = TRUE
          /\ \E run \in RunOutcomes(testCommandEmpty) :
                /\ baseTestResults' = run.result
                /\ runPc' = "setup"
    /\ UNCHANGED <<wmCreated, cleanupRan, driverCtxDone, createdWorktrees, removedWorktrees,
                   taskPc, taskRead, taskPath, taskDiffErr, agentProc, chSent, chClosed,
                   collected, tracked, patchDetails, storeCount, lateWrite>>
    /\ UNCHANGED <<testCommandEmpty, adapterVars, arbVars, evalVars, fnVars, registryVars,
                   watchdogVars, worktreeVars, collectVars>>

\* run from its entry through the baseline tests: NewWorktreeManager fails
\* and run returns, or SetBaselineTestResults is called and run returns if
\* it returned an error
RunToBaseline ==
    /\ runPc = "new"
    /\ \/ /\ runPc' = "returned"
          /\ UNCHANGED <<baseTestResults, baselineCalled>>
       \/ /\ baselineCalled' = TRUE
          /\ \E run \in RunOutcomes(testCommandEmpty) :
                /\ baseTestResults' = run.result
                /\ runPc' = IF run.err THEN "returned" ELSE "setup"
    /\ UNCHANGED <<wmCreated, cleanupRan, driverCtxDone, createdWorktrees, removedWorktrees,
                   taskPc, taskRead, taskPath, taskDiffErr, agentProc, chSent, chClosed,
                   collected, tracked, patchDetails, storeCount, lateWrite>>
    /\ UNCHANGED <<testCommandEmpty, adapterVars, arbVars, evalVars, fnVars, registryVars,
                   watchdogVars, worktreeVars, collectVars>>

\* a step of run that changes nothing but the place run is at
RunGoes(from, to) ==
    /\ runPc = from
    /\ runPc' = to
    /\ UNCHANGED <<wmCreated, cleanupRan, driverCtxDone, createdWorktrees, removedWorktrees,
                   taskPc, taskRead, taskPath, taskDiffErr, agentProc, chSent, chClosed,
                   collected, tracked, patchDetails, storeCount, lateWrite>>
    /\ UNCHANGED <<runnerVars, adapterVars, arbVars, evalVars, fnVars, registryVars,
                   watchdogVars, worktreeVars, collectVars>>

\* registerAdapters and CreateFromConfig: an error makes run return
RunCreateAdapters == RunGoes("setup", "agents") \/ RunGoes("setup", "returned")

\* runAgents: the agents are started, their tasks end, and the map of their
\* candidates is returned
RunAgentsOnce == RunGoes("agents", "select")

\* run calls arbitrator.SelectBestPatch(ctx, patchDetails)
RunSelectBegin == runPc = "select" /\ SelectBegin

\* SelectBestPatch has returned and run returns
RunReturn == spc = "done" /\ RunGoes("select", "returned")

InitRunOnce == InitArb

NextRunOnce ==
    \/ RunToBaseline
    \/ RunCreateAdapters
    \/ RunAgentsOnce
    \/ RunSelectBegin
    \/ \E a \in DOMAIN patches : SelectEval(a)
    \/ SelectFinish
    \/ RunReturn

SpecRunOnce == InitRunOnce /\ [][NextRunOnce]_vars

(***************************************************************************)
(* The claims.                                                             *)
(***************************************************************************)
\* C1: the events the CLI adapter puts on its channel carry strictly
\* increasing sequence numbers starting at 1, and every event's agent_id is
\* the adapter's id, whatever lines the process writes.
C1_SeqIncreasingFromOneOwnAgent ==
    /\ \A i \in 1..Len(emitted) : emitted[i].agent = AdapterID
    /\ Len(emitted) > 0 => emitted[1].seq = 1
    /\ \A i \in 1..(Len(emitted) - 1) : emitted[i].seq < emitted[i + 1].seq

\* C2: after a successful Start, once the subprocess has terminated or the
\* context is cancelled, the event channel is eventually closed.
C2_ChannelEventuallyClosed ==
    (startRet = "ok" /\ (proc \in {"zombie", "reaped"} \/ ctxDone)) ~> (closeCount > 0)

\* C3: the event channel is closed at most once, nothing is sent on it once
\* it is closed, and a failed Start starts no reader and returns no channel.
C3_ClosedOnceNoSendAfterClose ==
    /\ closeCount <= 1
    /\ ~sendOnClosed
    /\ startRet = "error" => (rpc = "none" /\ ~chanReturned)
    /\ rpc = "done" => closeCount = 1

\* the reader closed the channel after sending events, with the context
\* cancelled and Shutdown called on the way
C3_Witness ==
    /\ startRet = "ok"
    /\ rpc = "done"
    /\ closeCount = 1
    /\ Len(emitted) >= 2
    /\ ctxDone
    /\ shutdownCalls >= 1

\* C4: every Shutdown call, in every lifecycle state, returns no error.
C4_ShutdownNeverFails == shutdownErrs = 0

\* C5: the PatchResult SelectBestPatch returns has a score at least that of
\* every candidate whose evaluation succeeded.
C5_WinnerHasHighestScore ==
    (spc = "done" /\ selectRet.winner # Nil) =>
        \A i \in 1..Len(results) : selectRet.winner[1].score >= results[i].score

\* a selection among two evaluated candidates with different scores
C5_Witness ==
    /\ spc = "done"
    /\ selectRet.winner # Nil
    /\ Len(results) >= 2
    /\ \E i, j \in 1..Len(results) : results[i].score < results[j].score

\* C6: when two or more candidates share the highest score, two
\* SelectBestPatch calls on the same candidate map, in which every candidate
\* gets the same score both times, return the same candidate.
C6_SameWinnerEveryInvocation ==
    (/\ spc = "done"
     /\ invocation = 2
     /\ selectRet.winner # Nil
     /\ prevRet.winner # Nil
     /\ \E i, j \in 1..Len(results) :
           /\ i # j
           /\ results[i].score = selectRet.winner[1].score
           /\ results[j].score = selectRet.winner[1].score)
    => selectRet.winner[1].agent = prevRet.winner[1].agent

\* a line that is a conflict marker, alone or as the content of an added or
\* removed line
IsMarkerLine(line) ==
    \/ \E m \in Markers : HasPrefix(line, <<m>>)
    \/ \E m \in Markers : HasPrefix(line, <<"+", m>>) \/ HasPrefix(line, <<"-", m>>)

\* C7: for a non-blank diff with a conflict marker line anywhere, EvaluatePatch
\* returns score -10 with reason 'Patch contains merge conflicts' and does not
\* invoke the test runner.
C7_ConflictRejectedWithoutTests ==
    (/\ evalRet # Nil
     /\ ~IsBlank(evalDiff)
     /\ \E i \in 1..Len(evalDiff) : IsMarkerLine(evalDiff[i]))
    => /\ ~evalRet[1].err
       /\ ~evalRet[1].ranTests
       /\ evalRet[1].result[1].score = -10
       /\ evalRet[1].result[1].reason = "Patch contains merge conflicts"

\* C8: every candidate is evaluated exactly once and ends in one of no-tests
\* (score 0, 'No changes made', or score -10 for a conflict), dropped or
\* scored; the test runner runs at most once per candidate and never for a
\* candidate that ends in no-tests.
C8_CandidateStates ==
    /\ \A a \in DOMAIN patches :
          /\ evalCount[a] <= 1
          /\ runCount[a] <= evalCount[a]
          /\ cstate[a] = "received" <=> evalCount[a] = 0
          /\ cstate[a] = "no-tests" => runCount[a] = 0
          /\ cstate[a] \in {"dropped", "scored"} => runCount[a] = 1
          /\ spc = "done" =>
                /\ evalCount[a] = 1
                /\ cstate[a] \in {"no-tests", "dropped", "scored"}
    /\ \A i \in 1..Len(results) :
          LET r == results[i] IN
          /\ cstate[r.agent] \in {"no-tests", "scored"}
          /\ cstate[r.agent] = "no-tests" <=>
                \/ r.score = 0 /\ r.reason = "No changes made" /\ IsBlank(patches[r.agent])
                \/ r.score = -10 /\ r.reason = "Patch contains merge conflicts"
          /\ cstate[r.agent] = "scored" <=> r.tests # Nil
          /\ \A j \in 1..Len(results) : results[j].agent = r.agent => j = i
    /\ \A a \in DOMAIN patches :
          cstate[a] = "dropped" => \A i \in 1..Len(results) : results[i].agent # a

\* a finished selection with one candidate in no-tests and one scored
C8_Witness ==
    /\ spc = "done"
    /\ \E a, b \in DOMAIN patches :
          /\ cstate[a] = "no-tests" /\ \E i \in 1..Len(results) :
                results[i].agent = a /\ results[i].score = -10
          /\ cstate[b] = "scored"

Bonus(b, n) == IF b THEN n ELSE 0

\* the score as the sum the claim gives
ScoreFormula(in) ==
    LET D == in.LinesAdded + in.LinesRemoved IN
      Bonus(in.improved, 100) + Bonus(in.success, 50) + 5 * in.passed - 10 * in.failed
    + (IF 0 < D /\ D <= 10 THEN 5 ELSE IF D > 50 THEN -5 ELSE 0)
    + Bonus(in.success /\ D < 20, 10)

\* C9: calculateScore returns 100*[improved] + 50*[success] + 5*passed
\* - 10*failed + (5 if 0 < D <= 10, -5 if D > 50) + (10 if success and D < 20).
C9_ScoreIsTheSum == fnRet # Nil => fnRet[1] = ScoreFormula(fnArgs)

\* a score computed for a successful result with a diff of exactly 10 lines
C9_Witness ==
    /\ fnRet # Nil
    /\ fnArgs.LinesAdded + fnArgs.LinesRemoved = 10
    /\ fnArgs.success
    /\ fnArgs.passed > 0

\* C10: when before succeeded and after did not, CompareResults reports not
\* improved.
C10_RegressionNotImproved ==
    (fnRet # Nil /\ fnArgs.before.success /\ ~fnArgs.after.success) => ~fnRet[1].improved

\* C11: every path a successful CreateWorktree returned is tracked by the
\* manager afterwards: it is in the tracked list until Cleanup removes it,
\* and GetDiff does not reject it as a path the manager does not know.
C11_CreatedWorktreeStaysTracked ==
    \A a \in DriverAgents :
        /\ taskPath[a] # Nil =>
              taskPath[a][1] \in Range(createdWorktrees) \cup removedWorktrees
        /\ taskDiffErr[a] # "untracked"

\* C12: no deadlock among concurrent Register, Create, CreateFromConfig and
\* RegisteredTypes calls: whenever some task is inside a call, some task
\* inside a call can take its next step.
C12_RegistryCallsCanGoOn ==
    (\E t \in DOMAIN regPc : regPc[t] # "idle")
    => \E t \in DOMAIN regPc :
          \/ regPc[t] \in {"write", "read", "created", "runlock"}
          \/ regPc[t] = "lock" /\ rwWriter = Nil /\ rwPending = {}
          \/ regPc[t] = "lockwait" /\ rwReaders = 0
          \/ regPc[t] \in {"rlock", "create"} /\ CanRLock

\* C13: when run reaches SelectBestPatch, every agent task has finished (its
\* candidate stored, or the agent dropped); the candidate map is never
\* written once runAgents has returned, and it is written at most once per
\* agent id.
C13_SelectAfterAllTasksFinished ==
    /\ runPc = "select" => \A a \in DriverAgents : taskPc[a] = "done"
    /\ ~lateWrite
    /\ \A a \in DriverAgents :
          /\ storeCount[a] <= 1
          /\ patchDetails[a] # Nil <=> storeCount[a] = 1

\* run is about to select among a stored candidate with events and a dropped
\* agent whose worktree was created
C13_Witness ==
    /\ runPc = "select"
    /\ \E a, b \in DriverAgents :
          /\ patchDetails[a] # Nil
          /\ patchDetails[a][1].Events > 0
          /\ patchDetails[b] = Nil
          /\ taskPath[b] # Nil

\* C14: runAgents eventually returns, also when an agent's process never
\* exits and no interrupt arrives (a shared deadline ends the wait).
C14_RunAgentsEventuallyReturns == (runPc = "agents") ~> (runPc # "agents")

\* C15: once the driver's context is cancelled, run eventually returns; it
\* returns only when every agent task has finished and, if the worktree
\* manager exists, after its Cleanup has run.
C15_CancelledRunReturnsAfterCleanup ==
    /\ driverCtxDone ~> (runPc = "returned")
    /\ [](runPc = "returned" =>
            /\ \A a \in DriverAgents : taskPc[a] \in {"idle", "done"}
            /\ wmCreated => cleanupRan)

\* run has returned after a cancellation that ended an agent's collection
C15_Witness ==
    /\ runPc = "returned"
    /\ driverCtxDone
    /\ cleanupRan
    /\ \E a \in DriverAgents :
          /\ taskPc[a] = "done"
          /\ agentProc[a] = "exited"
          /\ removedWorktrees # {}

\* C16: every event the driver has recorded in a candidate's event history
\* was handed to the watchdog's track operation first.
C16_CollectedEventsWereTracked ==
    \A a \in DriverAgents : tracked[a] >= collected[a]

\* C17: over any sequence of watchdog operations in one run, each agent id
\* is in at most one emitted warning event.
C17_AtMostOneWarningPerAgent ==
    \A a \in DOMAIN warnedCount : warnedCount[a] <= 1

\* the form of a line that reaches protocol.Unmarshal and fails to decode
Undecodable(form) == form \in {"garbage", "blank"}

\* C18: each scanned line that fails to decode gives exactly one parse_error
\* event, at the line's position among the events; no other event is a
\* parse_error; the reader goes on scanning after it, so that it leaves its
\* loop only at the end of the stream (or at a scanner error), and it then
\* closes the channel once, with no send after the close.
C18_ParseErrorPerUndecodableLine ==
    /\ \A i \in 1..Len(emitted) :
          emitted[i].code = "parse_error"
          <=> (i <= Len(scanned) /\ Undecodable(scanned[i]))
    /\ Len(scanned) <= Len(emitted) + 1
    /\ Len(scanned) = Len(emitted) + 1 =>
          /\ rpc = "send"
          /\ Undecodable(scanned[Len(scanned)]) =>
                pending = [ev |-> NewErrorEvent(AdapterID, seq - 1, "parse_error"),
                           next |-> "scan"]
    /\ (rpc \in {"wait", "close", "done"}
          /\ \A i \in 1..Len(scanned) : scanned[i] # "long") => budget = 0
    /\ rpc = "done" => closeCount = 1 /\ ~sendOnClosed

\* the stream is over and the channel closed; a line that did not decode was
\* followed by one that did, and both gave their event
C18_Witness ==
    /\ rpc = "done"
    /\ closeCount = 1
    /\ \E i \in 1..Len(scanned) :
          /\ scanned[i] = "garbage"
          /\ emitted[i].code = "parse_error"
          /\ i < Len(scanned)
          /\ scanned[i + 1] = "json"
          /\ emitted[i + 1].type = "agent"

\* C19: a blank line delivered by the scanner is ignored: the step that
\* scans it prepares no event and leaves the sequence counter as it was.
C19_BlankLineIgnored ==
    [][(Len(scanned') = Len(scanned) + 1 /\ scanned'[Len(scanned')] = "blank")
          => (seq' = seq /\ pending' = NoPending)]_vars

\* C20: when Wait returns, the reader prepares a command_error event if and
\* only if the process failed and the context is not cancelled, and with a
\* cancelled context it goes straight to the close; a command_error event is
\* emitted only for a failed process, it is the last event, nothing follows
\* it but the close, and it is there whenever the reader has finished after
\* a failed process with the context still not cancelled.
C20_CommandErrorIffFailedAndNotCancelled ==
    /\ [][(rpc = "wait" /\ rpc' # "wait") =>
            /\ (pending'.ev.code = "command_error" /\ rpc' = "send")
                  <=> (~exitOK /\ ~ctxDone)
            /\ (exitOK \/ ctxDone) => (rpc' = "close" /\ pending' = NoPending)]_vars
    /\ [](\A i \in 1..Len(emitted) :
            emitted[i].code = "command_error" =>
               /\ i = Len(emitted)
               /\ rpc \in {"close", "done"}
               /\ ~exitOK)
    /\ []((rpc = "done" /\ ~exitOK /\ ~ctxDone) =>
            /\ emitted # <<>>
            /\ emitted[Len(emitted)].code = "command_error")

\* the process failed after a line was read, the context was never
\* cancelled, and the channel was closed right after the command_error event
C20_Witness ==
    /\ rpc = "done"
    /\ ~ctxDone
    /\ ~exitOK
    /\ Len(emitted) >= 2
    /\ emitted[Len(emitted)].code = "command_error"
    /\ closeCount = 1

\* C21: Run returns an error exactly when the test command is empty; when
\* the deadline has fired it returns a result with success false whose
\* error string is "context deadline exceeded".
C21_DeadlineGivesFailedResultNotError ==
    (fnArgs.fn = "Run" /\ fnRet # Nil) =>
        LET r == fnRet[1] IN
        /\ r.err <=> fnArgs.cmdEmpty
        /\ r.err <=> r.result = Nil
        /\ (~fnArgs.cmdEmpty /\ fnArgs.ctxErr = DeadlineExceeded) =>
              /\ ~r.result[1].success
              /\ r.result[1].error = DeadlineExceeded

\* Run has returned for a command that the deadline killed
C21_Witness ==
    /\ fnArgs.fn = "Run"
    /\ ~fnArgs.cmdEmpty
    /\ fnArgs.ctxErr = DeadlineExceeded
    /\ fnArgs.cmdErr # ""
    /\ fnRet # Nil
    /\ ~fnRet[1].err
    /\ fnRet[1].result[1].error = DeadlineExceeded

\* C22: the result's success is true exactly when the test process exited
\* cleanly (cmd.Run returned nil) and the parsed failed count is 0.
C22_SuccessIffCleanExitAndNoFailures ==
    (fnArgs.fn = "Run" /\ fnRet # Nil /\ ~fnArgs.cmdEmpty) =>
        (fnRet[1].result[1].success
            <=> (fnArgs.cmdErr = "" /\ fnRet[1].result[1].failed = 0))

\* C23: GetDiff and RemoveWorktree on a path that is not in the manager's
\* list fail with the invalid-worktree error and leave the list as it was;
\* after a successful RemoveWorktree(p), p is not in the list.
C23_UntrackedPathRejected ==
    wtLast.op \in {"GetDiff", "RemoveWorktree"} =>
        /\ wtLast.path \notin Range(wtLast.before) =>
              /\ wtLast.err = InvalidWorktree
              /\ createdWorktrees = wtLast.before
        /\ (wtLast.op = "RemoveWorktree" /\ wtLast.err = "") =>
              wtLast.path \notin Range(createdWorktrees)

\* RemoveWorktree was refused for a path that is a git worktree on disk but
\* not one of the manager's, while the manager tracks a worktree of its own
C23_Witness ==
    /\ wtLast.op = "RemoveWorktree"
    /\ wtLast.path = ForeignPath
    /\ ForeignPath \in wtOnDisk
    /\ wtLast.err = InvalidWorktree
    /\ createdWorktrees # <<>>

\* C24: Cleanup calls RemoveWorktree on every worktree in the list even when
\* some removals fail: afterwards the list holds exactly the worktrees whose
\* removal failed, and Cleanup returns an error if and only if there is one,
\* so it returns nil only with the list empty.
C24_CleanupRemovesAllButFailures ==
    wtLast.op = "Cleanup" =>
        /\ Range(createdWorktrees) = wtLast.failing
        /\ wtOnDisk \cap Range(wtLast.before) = wtLast.failing
        /\ wtLast.err # "" <=> wtLast.failing # {}
        /\ wtLast.err = "" <=> createdWorktrees = <<>>

\* Cleanup went on after the removal of the first worktree of the list
\* failed: the second one is removed, the first one stays in the list
C24_Witness ==
    /\ wtLast.op = "Cleanup"
    /\ Len(wtLast.before) >= 2
    /\ wtLast.failing = {wtLast.before[1]}
    /\ wtLast.err # ""
    /\ createdWorktrees = <<wtLast.before[1]>>

\* C25: when run has returned after the worktree manager was constructed,
\* every worktree created for an agent during the run has been removed.
C25_ReturnedRunLeavesNoWorktree ==
    (runPc = "returned" /\ wmCreated) =>
        \A a \in DriverAgents :
            taskPath[a] # Nil => taskPath[a][1] \in removedWorktrees

\* the agents of the list whose adapter Create cannot make from the registry
\* of registerAdapters
FailingAgents(agents) ==
    {i \in 1..Len(agents) : Create(registerAdapters, agents[i], TRUE).err # ""}

\* C26: Create returns an adapter only for a type that has a factory in the
\* registry, and an error and no adapter for a type that has none;
\* CreateFromConfig returns an error and no map as soon as one agent's
\* adapter cannot be made, and otherwise a map with every agent's id.
C26_CreateOnlyRegisteredAllOrNothing ==
    /\ (fnArgs.fn = "Create" /\ fnRet # Nil) =>
          LET r == fnRet[1] IN
          /\ r.adapter # Nil => fnArgs.config.Type \in DOMAIN fnArgs.factories
          /\ fnArgs.config.Type \notin DOMAIN fnArgs.factories =>
                r.err = NoFactory /\ r.adapter = Nil
          /\ r.err # "" <=> r.adapter = Nil
    /\ (fnArgs.fn = "Load" /\ fnRet # Nil) =>
          LET c == fnRet[1].created IN
          /\ FailingAgents(fnArgs.cfg.Agents) # {} <=> c.err # ""
          /\ c.err # "" <=> c.adapters = Nil
          /\ c.err = "" =>
                DOMAIN c.adapters[1] = {fnArgs.cfg.Agents[i].ID :
                                           i \in 1..Len(fnArgs.cfg.Agents)}

\* CreateFromConfig gave no map for a configuration whose first agent's
\* adapter can be made and whose second agent's type has no factory
C26_Witness ==
    /\ fnArgs.fn = "Load"
    /\ fnRet # Nil
    /\ Len(fnArgs.cfg.Agents) = 2
    /\ FailingAgents(fnArgs.cfg.Agents) = {2}
    /\ fnArgs.cfg.Agents[2].Type \notin DOMAIN registerAdapters
    /\ fnRet[1].created.err = NoFactory
    /\ fnRet[1].created.adapters = Nil

\* C27: a configuration accepted by validateConfig has pairwise distinct
\* agent ids, and the adapters made from it are one per configured agent.
C27_AcceptedAgentIdsDistinct ==
    (fnArgs.fn = "Load" /\ fnRet # Nil /\ fnRet[1].valid = "") =>
        LET agents == fnArgs.cfg.Agents IN
        /\ \A i, j \in 1..Len(agents) : i # j => agents[i].ID # agents[j].ID
        /\ fnRet[1].created.err = "" =>
              Cardinality(DOMAIN fnRet[1].created.adapters[1]) = Len(agents)

\* C28: for a configuration accepted by validateConfig, CreateFromConfig
\* with the registry of registerAdapters never fails for want of a factory.
C28_AcceptedTypesHaveFactory ==
    (fnArgs.fn = "Load" /\ fnRet # Nil /\ fnRet[1].valid = "") =>
        /\ fnRet[1].created.err # NoFactory
        /\ \A i \in 1..Len(fnArgs.cfg.Agents) :
              fnArgs.cfg.Agents[i].Type \in DOMAIN registerAdapters

\* C29: with the registry of registerAdapters, Create with a config whose
\* Type is a family tag (amp, codex, claude) and whose binary_path is set
\* returns a CLI adapter and no error.
C29_FamilyTagCreatesAdapter ==
    (fnArgs.fn = "Create" /\ fnRet # Nil /\ fnArgs.factories = registerAdapters
        /\ fnArgs.config.Type \in Families /\ fnArgs.config.binary_path) =>
        /\ fnRet[1].err = ""
        /\ fnRet[1].adapter # Nil

\* the candidates whose EvaluatePatch call returned an error
Errored == {a \in DOMAIN patches : runOf[a] # Nil /\ runOf[a][1].err}

\* C30: once SelectBestPatch has returned, it returned an error exactly when
\* the map was empty or every EvaluatePatch call failed, a result exactly
\* when it returned no error, and the result is never that of a candidate
\* whose evaluation failed.
C30_ErrorIffNothingScored ==
    spc = "done" =>
        /\ selectRet.err # "" <=> Errored = DOMAIN patches
        /\ selectRet.err = "" <=> selectRet.winner # Nil
        /\ \A a \in DOMAIN patches : cstate[a] = "dropped" <=> a \in Errored
        /\ selectRet.winner # Nil =>
              /\ selectRet.winner[1].agent \in DOMAIN patches \ Errored
              /\ selectRet.winner[1] \in Range(results)

\* SelectBestPatch returned the candidate that was scored although the
\* evaluation of another candidate failed
C30_Witness ==
    /\ spc = "done"
    /\ Errored # {}
    /\ selectRet.err = ""
    /\ selectRet.winner # Nil
    /\ selectRet.winner[1].agent \notin Errored

\* C31: the argument vector Start hands to the process is the configured
\* arguments, then "-w" and the worktree path exactly when none of -w,
\* --worktree, --workdir is among the configured arguments, then the prompt
\* as the last argument; the adapter's configured arguments are unchanged.
C31_ArgvIsArgsWorkdirPrompt ==
    (fnArgs.fn = "Start" /\ fnRet # Nil) =>
        LET argv == fnRet[1].argv
            n == Len(fnArgs.args)
            flagged == \E i \in 1..n : fnArgs.args[i] \in {"-w", "--worktree", "--workdir"}
        IN /\ SubSeq(argv, 1, n) = fnArgs.args
           /\ argv[Len(argv)] = fnArgs.prompt
           /\ flagged => Len(argv) = n + 1
           /\ ~flagged => /\ Len(argv) = n + 3
                          /\ argv[n + 1] = "-w"
                          /\ argv[n + 2] = fnArgs.worktreePath
           /\ fnRet[1].args = fnArgs.args

\* Start was called with a working-directory flag among two configured arguments
C31_Witness ==
    /\ fnArgs.fn = "Start"
    /\ fnRet # Nil
    /\ Len(fnArgs.args) = 2
    /\ fnArgs.args[2] = "--workdir"
    /\ fnArgs.args[1] = "-v"
    /\ fnRet[1].argv = <<"-v", "--workdir", fnArgs.prompt>>

\* C32: NormalizeDiff is idempotent: normalising what NormalizeDiff returned
\* gives the same text again.
C32_NormalizeDiffIdempotent ==
    (fnArgs.fn = "NormalizeDiff" /\ Len(fnRet) = 2) => fnRet[2] = fnRet[1]

TaskFailed(a) ==
    \/ taskPc[a] = "done" /\ taskPath[a] = Nil
    \/ taskPc[a] = "done" /\ taskPath[a] # Nil /\ agentProc[a] = "none"
    \/ taskDiffErr[a] # ""

\* C34: an agent whose worktree creation, Start or diff extraction failed
\* has no candidate in the map; the step in which its task fails changes
\* nothing of the other agents' tasks, of their candidates, of the tracked
\* worktrees or of run; and runAgents returns to the selection only.
C34_FailedAgentOnlyDropsItself ==
    [][/\ \A a \in DriverAgents :
             /\ TaskFailed(a)' => (patchDetails'[a] = Nil /\ taskPc'[a] = "done")
             /\ (TaskFailed(a)' /\ ~TaskFailed(a)) =>
                   /\ \A b \in DriverAgents \ {a} :
                         /\ taskPc'[b] = taskPc[b]
                         /\ taskPath'[b] = taskPath[b]
                         /\ taskDiffErr'[b] = taskDiffErr[b]
                         /\ agentProc'[b] = agentProc[b]
                         /\ collected'[b] = collected[b]
                         /\ patchDetails'[b] = patchDetails[b]
                   /\ createdWorktrees' = createdWorktrees
                   /\ runPc' = runPc
       /\ (runPc = "agents" /\ runPc' # "agents") => runPc' = "select"]_vars

\* runAgents has returned a map with the candidate of one agent and none for
\* the agent whose diff extraction failed
C34_Witness ==
    /\ runPc = "select"
    /\ \E a, b \in DriverAgents :
          /\ taskDiffErr[a] = "git"
          /\ patchDetails[a] = Nil
          /\ patchDetails[b] # Nil

\* s is the beginning of t
IsPrefixOf(s, t) == Len(s) <= Len(t) /\ SubSeq(t, 1, Len(s)) = s

\* C36: what collectEvents has collected is always an in-order prefix of the
\* non-nil events sent on the channel; it has returned all of them when it
\* returns with the context not cancelled or with the closed channel
\* drained; and once the context is cancelled it can return, whether or not
\* the channel is closed.
C36_CollectReturnsPrefix ==
    /\ IsPrefixOf(events, NonNil(emitted))
    /\ (cpc = "returned" /\ (~ctxDone \/ (closeCount > 0 /\ eventCh = <<>>))) =>
          events = NonNil(emitted)
    /\ (cpc = "collect" /\ ctxDone) => ENABLED CollectCtxDone

\* collectEvents returned some but not all of the events of a channel that
\* also carried a nil and was closed before the context was cancelled
C36_Witness ==
    /\ cpc = "returned"
    /\ closedFirst
    /\ ctxDone
    /\ events # <<>>
    /\ Len(events) < Len(NonNil(emitted))
    /\ \E i \in 1..Len(emitted) : emitted[i] = NoEvent

\* C36 as stated: collectEvents returns the complete sequence whenever the
\* channel was closed before the context was cancelled.
C36_CompleteWhenClosedFirst ==
    /\ IsPrefixOf(events, NonNil(emitted))
    /\ (cpc = "returned" /\ closedFirst) => events = NonNil(emitted)
    /\ (cpc = "collect" /\ ctxDone) => ENABLED CollectCtxDone

\* C37: a CreateWorktree call for an agent whose earlier worktree still
\* exists succeeds and gives a path distinct from every path of the list.
C37_SecondWorktreeOfAgentCreated ==
    (wtLast.op = "CreateWorktree" /\ wtLast.path \in Range(wtLast.before)) =>
        /\ wtLast.err = ""
        /\ Len(createdWorktrees) = Len(wtLast.before) + 1
        /\ Cardinality(Range(createdWorktrees)) = Len(createdWorktrees)

\* C38: in a run of the driver the baseline is written only by the one
\* SetBaselineTestResults call at the start of run; the agents are started
\* and EvaluatePatch is called only after that call has returned without
\* an error, with the baseline present.
C38_BaselineOnceBeforeAgentsAndEvaluation ==
    [][/\ (baseTestResults' # baseTestResults \/ baselineCalled' # baselineCalled) =>
             (runPc = "new" /\ ~baselineCalled /\ baselineCalled')
       /\ (\/ runPc' \in {"agents", "select"}
           \/ spc' # "new"
           \/ \E a \in DOMAIN patches : evalCount'[a] > 0) =>
             (baselineCalled' /\ baseTestResults' # Nil)]_vars

\* a candidate has been scored against a baseline whose tests failed
C38_Witness ==
    /\ runPc = "select"
    /\ baselineCalled
    /\ baseTestResults # Nil
    /\ ~baseTestResults[1].success
    /\ \E a \in DOMAIN patches : evalCount[a] > 0 /\ cstate[a] = "scored"

\* C39: in the TestResult of parseTestResults the total is the sum of the
\* passed, the failed and the skipped tests, and it is at least 1 when the
\* run returned no error.
C39_TotalIsSumAndPositiveOnCleanExit ==
    (fnArgs.fn = "parseTestResults" /\ fnRet # Nil) =>
        LET r == fnRet[1] IN
        /\ r.total = r.passed + r.failed + r.skipped
        /\ fnArgs.runErr = "" => r.total >= 1

\* parseTestResults on an output without any test line after a clean exit:
\* one passed test is assumed
C39_Witness ==
    /\ fnArgs.fn = "parseTestResults"
    /\ fnRet # Nil
    /\ fnArgs.runErr = ""
    /\ fnArgs.output = <<"text", "jrun">>
    /\ fnRet[1].total = 1
    /\ fnRet[1].passed = 1

\* the score of the call's test outcome with a diff of the given size
ScoreAt(added, removed) ==
    calculateScore(fnArgs.improved, [LinesAdded |-> added, LinesRemoved |-> removed],
                   [success |-> fnArgs.success, passed |-> fnArgs.passed,
                    failed |-> fnArgs.failed])

\* C40: for a fixed improved flag and test result, a diff of at least one
\* line never scores lower than a larger diff.
C40_ScoreNonIncreasingInDiffSize ==
    (fnArgs.fn = "calculateScore" /\ fnRet # Nil
        /\ fnArgs.LinesAdded + fnArgs.LinesRemoved >= 1) =>
        \A added \in 0..MaxAdded, removed \in 0..MaxRemoved :
            added + removed >= fnArgs.LinesAdded + fnArgs.LinesRemoved =>
                ScoreAt(added, removed) <= fnRet[1]

\* the score of a diff of more than 50 lines is lower than that of a diff of
\* 20 lines with the same successful test result
C40_Witness ==
    /\ fnArgs.fn = "calculateScore"
    /\ fnRet # Nil
    /\ fnArgs.success
    /\ fnArgs.LinesAdded + fnArgs.LinesRemoved > 50
    /\ fnRet[1] < ScoreAt(20, 0)
    /\ ScoreAt(20, 0) < ScoreAt(10, 0)

====
